---------------------------- MODULE Spec2Model ----------------------------
(***************************************************************************)
(* A model of the domain-server settings manager                           *)
(* (domain-server/src/DomainServerSettingsManager.cpp) and of the          *)
(* permission sets it keeps (libraries/networking/src/NodePermissions.cpp).*)
(*                                                                         *)
(* Values of the configuration maps (QVariant) are tagged records; a       *)
(* QVariantMap is a function from key strings to such values.  Every       *)
(* operation of the manager is an operator from a state record to a state  *)
(* record; an action applies one handler to the current state.             *)
(***************************************************************************)
EXTENDS Integers, Sequences, FiniteSets, TLC

VARIABLES
    userConfig,                 \* _configMap.getUserConfig()
    masterConfig,               \* _configMap.getMasterConfig()
    mergedConfig,               \* _configMap.getMergedConfig()
    diskConfig,                 \* content of the user settings file
    diskWritable,               \* whether QFile::open(WriteOnly) succeeds
    standardAgentPermissions,   \* _standardAgentPermissions
    agentPermissions,           \* _agentPermissions
    groupPermissions,           \* _groupPermissions
    groupForbiddens,            \* _groupForbiddens
    groupPermissionsByUUID,     \* _groupPermissionsByUUID
    groupForbiddensByUUID,      \* _groupForbiddensByUUID
    groupIDs,                   \* _groupIDs: lower-case name -> uuid
    groupNames,                 \* _groupNames: uuid -> name
    groupRanks,                 \* _groupRanks: uuid -> rank names
    groupRanksLastFetched,      \* _groupRanksLastFetched: uuid -> time
    pending,                    \* directory requests in flight
    hasAuthEndpoint,            \* AccountManager::hasAuthEndpoint()
    now,                        \* usecTimestampNow(), in seconds
    hashSeed,                   \* the process's QHash iteration order
    storedVersion,              \* QSettings "json-settings/version" (x10)
    descriptionVersion,         \* _descriptionVersion (x10)
    pc,                         \* where the process is in its life
    trace,                      \* events of the handler that ran last
    last,                       \* the handler that ran last, its input and result
    used,                       \* how many posts, ticks and crashes happened
    boot,                       \* the files and version the first process found
    opA                         \* the operands of the permission algebra

vars == << userConfig, masterConfig, mergedConfig, diskConfig, diskWritable,
           standardAgentPermissions, agentPermissions, groupPermissions,
           groupForbiddens, groupPermissionsByUUID, groupForbiddensByUUID,
           groupIDs, groupNames, groupRanks, groupRanksLastFetched, pending,
           hasAuthEndpoint, now, hashSeed, storedVersion, descriptionVersion,
           pc, trace, last, used, boot, opA >>

-----------------------------------------------------------------------------
(* Bounds of the model.                                                    *)

MaxRank == 2
MaxPosts == 2
MaxPending == 1
MaxTicks == 1
MaxCrashes == 1

-----------------------------------------------------------------------------
(* Strings.  QString::toLower and QString::operator< are tables over the   *)
(* strings the model uses; StrOrder lists them in code-unit order.         *)

StrOrder ==
    << "", "/", "//home", "/home", "/lobby", "42", "Bob", "Crew", "H1", "H2",
       "H3", "H4", "Localhost", "Pilots", "admin", "alice", "anonymous", "attenuation",
       "audio_env", "bob", "bogus", "crew", "descriptors",
       "entity_server_settings", "false", "friends", "group_forbiddens",
       "group_permissions", "home", "http_password", "lobby", "localhost",
       "logged-in", "member", "motd", "owner", "paths", "permissions",
       "persistFilePath", "persistFilename", "pilots", "restricted_access",
       "secret", "security", "standard_permissions", "true", "u1", "u2",
       "viewpoint", "wizard" >>

StrIdx(s) == CHOOSE i \in 1..Len(StrOrder) : StrOrder[i] = s

StrLess(a, b) == StrIdx(a) < StrIdx(b)

toLower(s) ==
    CASE s = "Bob" -> "bob"
      [] s = "Crew" -> "crew"
      [] s = "Localhost" -> "localhost"
      [] s = "Pilots" -> "pilots"
      [] s = "H1" -> "h1"
      [] s = "H2" -> "h2"
      [] s = "H3" -> "h3"
      [] s = "H4" -> "h4"
      [] OTHER -> s

(* QCryptographicHash::hash(..., Sha256).toHex(): an injective table.      *)
Sha256Hex(s) ==
    CASE s = "secret" -> "H1"
      [] s = "H1" -> "H2"
      [] s = "H2" -> "H3"
      [] OTHER -> "H4"

-----------------------------------------------------------------------------
(* QVariant values.                                                        *)

NullV == [t |-> "null"]
Absent == [t |-> "absent"]
StrV(x) == [t |-> "str", s |-> x]
BoolV(x) == [t |-> "bool", b |-> x]
NumV(x) == [t |-> "num", n |-> x]
ListV(x) == [t |-> "list", l |-> x]
MapV(x) == [t |-> "map", m |-> x]

EmptyMap == [k \in {} |-> NullV]

IsMap(v) == v.t = "map"
IsList(v) == v.t = "list"

(* QVariant::toMap / toList / toString / toBool / toInt                    *)
toMap(v) == IF v.t = "map" THEN v.m ELSE EmptyMap
toList(v) == IF v.t = "list" THEN v.l ELSE << >>
toString(v) ==
    CASE v.t = "str" -> v.s
      [] v.t = "bool" -> IF v.b THEN "true" ELSE "false"
      [] OTHER -> ""
toBool(v) ==
    CASE v.t = "bool" -> v.b
      [] v.t = "str" -> v.s \notin {"", "0", "false"}
      [] v.t = "num" -> v.n # 0
      [] OTHER -> FALSE
toInt(v) ==
    CASE v.t = "num" -> v.n
      [] v.t = "bool" -> IF v.b THEN 1 ELSE 0
      [] OTHER -> 0
(* canConvert(QMetaType::QString)                                          *)
canConvertString(v) == v.t \in {"str", "bool", "num"}

(* QVariantMap::value(key): the value, or a null QVariant.                 *)
MapValue(m, k) == IF k \in DOMAIN m THEN m[k] ELSE NullV

MapSet(m, k, v) == [x \in DOMAIN m \cup {k} |-> IF x = k THEN v ELSE m[x]]

MapRemove(m, k) == [x \in DOMAIN m \ {k} |-> m[x]]

-----------------------------------------------------------------------------
(* HifiConfigVariantMap: key-path access and the merge of the two          *)
(* documents.  A key path is the sequence of its dot-separated segments.   *)

RECURSIVE valueForKeyPath(_, _)
valueForKeyPath(m, path) ==
    IF Head(path) \notin DOMAIN m THEN Absent
    ELSE IF Len(path) = 1 THEN m[Head(path)]
    ELSE IF ~IsMap(m[Head(path)]) THEN Absent
    ELSE valueForKeyPath(m[Head(path)].m, Tail(path))

(* *valueForKeyPath(m, path, true) = v: intermediate maps are created.     *)
RECURSIVE setKeyPath(_, _, _)
setKeyPath(m, path, v) ==
    IF Len(path) = 1 THEN MapSet(m, Head(path), v)
    ELSE LET sub == IF Head(path) \in DOMAIN m /\ IsMap(m[Head(path)])
                    THEN m[Head(path)].m ELSE EmptyMap
         IN  MapSet(m, Head(path), MapV(setKeyPath(sub, Tail(path), v)))

(* valueForKeyPath(m, path, true) with nothing assigned: a missing leaf is *)
(* created as a null QVariant.                                             *)
createKeyPath(m, path) ==
    IF valueForKeyPath(m, path) = Absent THEN setKeyPath(m, path, NullV) ELSE m

(* The merged view: the user document over the master document, maps       *)
(* merged key by key.                                                      *)
RECURSIVE mergeMaps(_, _)
mergeMaps(master, user) ==
    [k \in DOMAIN master \cup DOMAIN user |->
        IF k \notin DOMAIN user THEN master[k]
        ELSE IF k \notin DOMAIN master THEN user[k]
        ELSE IF IsMap(master[k]) /\ IsMap(user[k])
             THEN MapV(mergeMaps(master[k].m, user[k].m))
             ELSE user[k]]

-----------------------------------------------------------------------------
(* NodePermissions.  The permission bitmask (QFlags<Permission>, an int)   *)
(* is the set of its set bits: the six capabilities, and HighBits for the  *)
(* bits above them, which every operation treats alike.                    *)

Capabilities ==
    {"connect", "locks", "rez", "rez_tmp", "asset", "past_cap"}

HighBits == "high"

AllBits == Capabilities \cup {HighBits}

(* The key of each capability in a permission record of the settings.      *)
PermissionKey(cap) ==
    CASE cap = "connect" -> "id_can_connect"
      [] cap = "locks" -> "id_can_adjust_locks"
      [] cap = "rez" -> "id_can_rez"
      [] cap = "rez_tmp" -> "id_can_rez_tmp"
      [] cap = "asset" -> "id_can_write_to_asset_server"
      [] cap = "past_cap" -> "id_can_connect_past_max_capacity"

Uuids == {"u1", "u2"}

NullUuid == ""

(* QVariant::toUuid                                                         *)
toUuid(v) == IF v.t = "str" /\ v.s \in Uuids THEN v.s ELSE NullUuid

Key(id, rank) == << toLower(id), rank >>

(* NodePermissions(const NodePermissionsKey&): no group, no capability.    *)
NewNodePermissions(key) ==
    [id |-> toLower(key[1]), rank |-> key[2], groupID |-> NullUuid,
     groupIDSet |-> FALSE, permissions |-> {}]

(* NodePermissions::NodePermissions(QMap<QString, QVariant>)               *)
NodePermissionsFromMap(perms) ==
    LET gid == IF "group_id" \in DOMAIN perms
               THEN toUuid(perms["group_id"]) ELSE NullUuid
    IN  [id |-> toLower(toString(MapValue(perms, "permissions_id"))),
         rank |-> IF "rank" \in DOMAIN perms THEN toInt(perms["rank"]) ELSE 0,
         groupID |-> gid,
         groupIDSet |-> gid # NullUuid,
         permissions |->
            {c \in Capabilities : toBool(MapValue(perms, PermissionKey(c)))}]

getKey(e) == << e.id, e.rank >>

isGroup(e) == e.groupIDSet

can(e, p) == p \in e.permissions

(* NodePermissions::setGroupID                                              *)
entrySetGroupID(e, gid) ==
    [e EXCEPT !.groupID = gid,
              !.groupIDSet = IF gid # NullUuid THEN TRUE ELSE @]

(* NodePermissions::toVariant(rankNames)                                   *)
toVariant(e, rankNames) ==
    LET base == [k \in {"permissions_id"} \cup
                       {PermissionKey(c) : c \in Capabilities} |->
                    IF k = "permissions_id" THEN StrV(e.id)
                    ELSE BoolV(\E c \in Capabilities :
                                  PermissionKey(c) = k /\ can(e, c))]
        grp == IF e.groupIDSet
               THEN ("group_id" :> StrV(e.groupID)) @@ ("rank" :> NumV(e.rank))
               ELSE EmptyMap
        rnk == IF e.groupIDSet /\ Len(rankNames) > e.rank
               THEN ("rank_name" :> StrV(rankNames[e.rank + 1]))
               ELSE EmptyMap
    IN  MapV(rnk @@ grp @@ base)

(* NodePermissions::setAll                                                  *)
setAll(e, value) ==
    [e EXCEPT !.permissions = IF value THEN AllBits ELSE {}]

(* A slip in operator|=: the bits are assigned, not or-ed.                 *)
orAssignOverwrites(lhs, rhs) ==
    [lhs EXCEPT !.permissions = rhs.permissions]

(* NodePermissions::operator|=(const NodePermissions&)                     *)
orAssign(lhs, rhs) ==
    [lhs EXCEPT !.permissions = @ \cup rhs.permissions]

(* NodePermissions::set / clear                                             *)
setPermission(e, p) == [e EXCEPT !.permissions = @ \cup {p}]
clearPermission(e, p) == [e EXCEPT !.permissions = @ \ {p}]

standardNameLocalhost == << "localhost", 0 >>
standardNameLoggedIn == << "logged-in", 0 >>
standardNameAnonymous == << "anonymous", 0 >>
standardNameFriends == << "friends", 0 >>

(* NodePermissionsMap: a hash from lower-cased key to entry.               *)
EmptyPermissionsMap == [k \in {} |-> NullV]

mapContains(m, key) == Key(key[1], key[2]) \in DOMAIN m

mapSet(m, key, e) ==
    [k \in DOMAIN m \cup {Key(key[1], key[2])} |->
        IF k = Key(key[1], key[2]) THEN e ELSE m[k]]

(* NodePermissionsMap::operator[]: a missing key gets a fresh entry.       *)
mapIndex(m, key) ==
    IF mapContains(m, key) THEN m
    ELSE mapSet(m, key, NewNodePermissions(key))

-----------------------------------------------------------------------------
(* The iteration order of a QHash or QSet: one of two orders, fixed by the *)
(* seed the process drew.                                                  *)

KeyLess(a, b) ==
    \/ StrLess(a[1], b[1])
    \/ a[1] = b[1] /\ a[2] < b[2]

RECURSIVE keysInOrder(_, _)
keysInOrder(S, seed) ==
    IF S = {} THEN << >>
    ELSE LET first == CHOOSE k \in S : \A o \in S \ {k} :
                         IF seed = 0 THEN KeyLess(k, o) ELSE KeyLess(o, k)
         IN  << first >> \o keysInOrder(S \ {first}, seed)

RECURSIVE idsInOrder(_, _)
idsInOrder(S, seed) ==
    IF S = {} THEN << >>
    ELSE LET first == CHOOSE k \in S : \A o \in S \ {k} :
                         IF seed = 0 THEN StrLess(k, o) ELSE StrLess(o, k)
         IN  << first >> \o idsInOrder(S \ {first}, seed)

-----------------------------------------------------------------------------
(* The manager's state as one record, and the key paths of the four        *)
(* permission lists.                                                       *)

St ==
    [userConfig |-> userConfig, masterConfig |-> masterConfig,
     mergedConfig |-> mergedConfig, diskConfig |-> diskConfig,
     diskWritable |-> diskWritable,
     standardAgentPermissions |-> standardAgentPermissions,
     agentPermissions |-> agentPermissions,
     groupPermissions |-> groupPermissions,
     groupForbiddens |-> groupForbiddens,
     groupPermissionsByUUID |-> groupPermissionsByUUID,
     groupForbiddensByUUID |-> groupForbiddensByUUID,
     groupIDs |-> groupIDs, groupNames |-> groupNames,
     groupRanks |-> groupRanks,
     groupRanksLastFetched |-> groupRanksLastFetched,
     pending |-> pending, hasAuthEndpoint |-> hasAuthEndpoint, now |-> now,
     hashSeed |-> hashSeed, storedVersion |-> storedVersion,
     descriptionVersion |-> descriptionVersion, trace |-> trace]

AGENT_STANDARD_PERMISSIONS_KEYPATH == << "security", "standard_permissions" >>
AGENT_PERMISSIONS_KEYPATH == << "security", "permissions" >>
GROUP_PERMISSIONS_KEYPATH == << "security", "group_permissions" >>
GROUP_FORBIDDENS_KEYPATH == << "security", "group_forbiddens" >>

StaleDataAge == 600

log(s, e) == [s EXCEPT !.trace = Append(@, e)]

-----------------------------------------------------------------------------
(* Sorting and persisting.                                                 *)

(* permissionVariantLessThan                                               *)
permissionVariantLessThan(v1, v2) ==
    IF ~IsMap(v1) \/ ~IsMap(v2)
    THEN StrLess(toString(v1), toString(v2))
    ELSE IF "permissions_id" \notin DOMAIN v1.m
            \/ "permissions_id" \notin DOMAIN v2.m
    THEN StrLess(toString(v1), toString(v2))
    ELSE IF /\ "rank_name" \in DOMAIN v1.m
            /\ "rank_name" \in DOMAIN v2.m
            /\ toString(v1.m["permissions_id"]) = toString(v2.m["permissions_id"])
    THEN StrLess(toString(v1.m["rank_name"]), toString(v2.m["rank_name"]))
    ELSE StrLess(toString(v1.m["permissions_id"]),
                 toString(v2.m["permissions_id"]))

(* std::sort with that comparison, as an insertion sort.                   *)
RECURSIVE insertSorted(_, _)
insertSorted(sorted, x) ==
    IF sorted = << >> THEN << x >>
    ELSE IF permissionVariantLessThan(x, Head(sorted))
    THEN << x >> \o sorted
    ELSE << Head(sorted) >> \o insertSorted(Tail(sorted), x)

RECURSIVE sortList(_)
sortList(l) ==
    IF l = << >> THEN << >>
    ELSE insertSorted(sortList(SubSeq(l, 1, Len(l) - 1)), l[Len(l)])

sortAt(m, path) ==
    LET v == valueForKeyPath(m, path)
    IN  IF IsList(v) THEN setKeyPath(m, path, ListV(sortList(v.l))) ELSE m

(* DomainServerSettingsManager::sortPermissions                            *)
sortPermissions(s) ==
    [s EXCEPT !.userConfig =
        sortAt(sortAt(@, AGENT_STANDARD_PERMISSIONS_KEYPATH),
               AGENT_PERMISSIONS_KEYPATH)]

(* DomainServerSettingsManager::persistToFile                              *)
persistToFile(s) ==
    LET write(s1) ==
            log([s1 EXCEPT !.diskConfig =
                     IF s1.diskWritable THEN MapV(s1.userConfig) ELSE @],
                IF s1.diskWritable THEN "persist" ELSE "persist-failed")
    IN  write(sortPermissions(s))

(* HifiConfigVariantMap::mergeMasterAndUserConfigs                         *)
mergeMasterAndUserConfigs(s) ==
    log([s EXCEPT !.mergedConfig = mergeMaps(s.masterConfig, s.userConfig)],
        "merge")

(* HifiConfigVariantMap::loadMasterAndUserConfig: the user document is     *)
(* read again from its file, when there is one, and the view re-merged.    *)
loadMasterAndUserConfig(s) ==
    LET user == IF IsMap(s.diskConfig) THEN s.diskConfig.m ELSE s.userConfig
    IN  log([s EXCEPT !.userConfig = user,
                      !.mergedConfig = mergeMaps(s.masterConfig, user)],
            "merge")

-----------------------------------------------------------------------------
(* packPermissions                                                         *)

rankNamesOf(s, gid) ==
    IF gid \in DOMAIN s.groupRanks THEN s.groupRanks[gid] ELSE << >>

(* DomainServerSettingsManager::packPermissionsForMap                      *)
packPermissionsForMap(s, agentPerms, keyPath) ==
    LET keys == keysInOrder(DOMAIN agentPerms, s.hashSeed)
        recs == [i \in 1..Len(keys) |->
                    LET perms == agentPerms[keys[i]]
                    IN  IF isGroup(perms)
                        THEN toVariant(perms, rankNamesOf(s, perms.groupID))
                        ELSE toVariant(perms, << >>)]
    IN  [s EXCEPT !.userConfig = setKeyPath(@, keyPath, ListV(recs))]

(* DomainServerSettingsManager::packPermissions                            *)
packPermissions(s) ==
    LET s1 == packPermissionsForMap(log(s, "pack"), s.standardAgentPermissions,
                                    AGENT_STANDARD_PERMISSIONS_KEYPATH)
        s2 == packPermissionsForMap(s1, s.agentPermissions,
                                    AGENT_PERMISSIONS_KEYPATH)
        s3 == packPermissionsForMap(s2, s.groupPermissions,
                                    GROUP_PERMISSIONS_KEYPATH)
        s4 == packPermissionsForMap(s3, s.groupForbiddens,
                                    GROUP_FORBIDDENS_KEYPATH)
    IN  loadMasterAndUserConfig(persistToFile(s4))

-----------------------------------------------------------------------------
(* The by-UUID indexes hold shared pointers.  A pointer is a reference to  *)
(* the entry a set holds at a key (live), or, once unpackPermissions has   *)
(* cleared that set, to the entry as it then was.                          *)

liveRef(which, key) == [live |-> TRUE, map |-> which, key |-> key, obj |-> NullV]

deref(s, ref) ==
    IF ~ref.live THEN ref.obj
    ELSE IF ref.map = "perm" THEN s.groupPermissions[ref.key]
    ELSE s.groupForbiddens[ref.key]

detach(s, index) ==
    [k \in DOMAIN index |->
        [live |-> FALSE, map |-> index[k].map, key |-> index[k].key,
         obj |-> deref(s, index[k])]]

EmptyIndex == [k \in {} |-> NullV]

indexSet(index, k, ref) ==
    [x \in DOMAIN index \cup {k} |-> IF x = k THEN ref ELSE index[x]]

-----------------------------------------------------------------------------
(* Group identities and rank coverage.                                     *)

groupIDInMap(m, groupName, gid) ==
    [k \in DOMAIN m |->
        IF toLower(m[k].id) = toLower(groupName) /\ ~isGroup(m[k])
        THEN entrySetGroupID(m[k], gid) ELSE m[k]]

(* DomainServerSettingsManager::setGroupID: the new state and `changed`.   *)
setGroupID(s, groupName, gid) ==
    LET hit(m) == \E k \in DOMAIN m :
                     toLower(m[k].id) = toLower(groupName) /\ ~isGroup(m[k])
    IN  [s |-> [s EXCEPT
                  !.groupIDs = MapSet(@, toLower(groupName), gid),
                  !.groupNames = MapSet(@, gid, groupName),
                  !.groupPermissions = groupIDInMap(@, groupName, gid),
                  !.groupForbiddens = groupIDInMap(@, groupName, gid)],
         changed |-> hit(s.groupPermissions) \/ hit(s.groupForbiddens)]

(* getGroupIDs / getBlacklistGroupIDs                                       *)
getGroupIDs(s) ==
    {s.groupPermissions[k].groupID :
        k \in {x \in DOMAIN s.groupPermissions : isGroup(s.groupPermissions[x])}}

getBlacklistGroupIDs(s) ==
    {s.groupForbiddens[k].groupID :
        k \in {x \in DOMAIN s.groupForbiddens : isGroup(s.groupForbiddens[x])}}

groupNameOf(s, gid) ==
    IF gid \in DOMAIN s.groupNames THEN s.groupNames[gid] ELSE ""

(* A slip in the rank loop: `changed` is set for every rank, found or not. *)
RECURSIVE ensureRanksAlwaysChanged(_, _, _, _, _, _)
ensureRanksAlwaysChanged(acc, which, groupName, gid, rank, count) ==
    IF rank >= count THEN acc
    ELSE LET nameKey == Key(groupName, rank)
             has == mapContains(acc.m, nameKey)
             perms == entrySetGroupID(NewNodePermissions(nameKey), gid)
             next ==
                 [m |-> IF has THEN acc.m ELSE mapSet(acc.m, nameKey, perms),
                  index |-> indexSet(acc.index, << gid, rank >>,
                                     liveRef(which, nameKey)),
                  changed |-> TRUE]
         IN  ensureRanksAlwaysChanged(next, which, groupName, gid, rank + 1,
                                      count)

(* A slip in the rank loop: the last rank is left out.                     *)
RECURSIVE ensureRanksStopsEarly(_, _, _, _, _, _)
ensureRanksStopsEarly(acc, which, groupName, gid, rank, count) ==
    IF rank >= count - 1 THEN acc
    ELSE LET nameKey == Key(groupName, rank)
             has == mapContains(acc.m, nameKey)
             perms == entrySetGroupID(NewNodePermissions(nameKey), gid)
             next ==
                 [m |-> IF has THEN acc.m ELSE mapSet(acc.m, nameKey, perms),
                  index |-> indexSet(acc.index, << gid, rank >>,
                                     liveRef(which, nameKey)),
                  changed |-> acc.changed \/ ~has]
         IN  ensureRanksStopsEarly(next, which, groupName, gid, rank + 1,
                                   count)

(* One pass of a loop of ensurePermissionsForGroupRanks: the ranks of one  *)
(* group, from `rank` on, in the set `m` with its index.                   *)
RECURSIVE ensureRanks(_, _, _, _, _, _)
ensureRanks(acc, which, groupName, gid, rank, count) ==
    IF rank >= count THEN acc
    ELSE LET nameKey == Key(groupName, rank)
             has == mapContains(acc.m, nameKey)
             perms == entrySetGroupID(NewNodePermissions(nameKey), gid)
             next ==
                 [m |-> IF has THEN acc.m ELSE mapSet(acc.m, nameKey, perms),
                  index |-> indexSet(acc.index, << gid, rank >>,
                                     liveRef(which, nameKey)),
                  changed |-> acc.changed \/ ~has]
         IN  ensureRanks(next, which, groupName, gid, rank + 1, count)

RECURSIVE ensureGroups(_, _, _, _)
ensureGroups(s, acc, which, gids) ==
    IF gids = << >> THEN acc
    ELSE ensureGroups(s,
             ensureRanks(acc, which, groupNameOf(s, Head(gids)), Head(gids),
                         0, Len(rankNamesOf(s, Head(gids)))),
             which, Tail(gids))

(* DomainServerSettingsManager::ensurePermissionsForGroupRanks: the new    *)
(* state and `changed`.                                                    *)
ensurePermissionsForGroupRanks(s) ==
    LET both(p, f) ==
            [s |-> [s EXCEPT !.groupPermissions = p.m,
                             !.groupPermissionsByUUID = p.index,
                             !.groupForbiddens = f.m,
                             !.groupForbiddensByUUID = f.index],
             changed |-> p.changed \/ f.changed]
    IN  both(ensureGroups(s,
                 [m |-> s.groupPermissions, index |-> s.groupPermissionsByUUID,
                  changed |-> FALSE],
                 "perm", idsInOrder(getGroupIDs(s), s.hashSeed)),
             ensureGroups(s,
                 [m |-> s.groupForbiddens, index |-> s.groupForbiddensByUUID,
                  changed |-> FALSE],
                 "forb", idsInOrder(getBlacklistGroupIDs(s), s.hashSeed)))

-----------------------------------------------------------------------------
(* The directory requests.                                                 *)

pendingCount(s, req) == IF req \in DOMAIN s.pending THEN s.pending[req] ELSE 0

sendRequest(s, req) ==
    [s EXCEPT !.pending =
        [r \in DOMAIN @ \cup {req} |->
            IF r = req THEN pendingCount(s, req) + 1 ELSE @[r]]]

(* DomainServerSettingsManager::apiGetGroupID                               *)
apiGetGroupID(s, groupName) == sendRequest(s, << "id", groupName >>)

(* DomainServerSettingsManager::apiGetGroupRanks                            *)
apiGetGroupRanks(s, gid) ==
    sendRequest([s EXCEPT !.groupRanksLastFetched = MapSet(@, gid, s.now)],
                << "ranks", gid >>)

(* DomainServerSettingsManager::getAllKnownGroupNames                       *)
getAllKnownGroupNames(s) ==
    {k[1] : k \in DOMAIN s.groupPermissions \cup DOMAIN s.groupForbiddens}

RECURSIVE requestIDs(_, _)
requestIDs(s, names) ==
    IF names = << >> THEN s
    ELSE requestIDs(IF toLower(Head(names)) \in DOMAIN s.groupIDs THEN s
                    ELSE apiGetGroupID(s, Head(names)),
                    Tail(names))

lastFetched(s, gid) ==
    IF gid \in DOMAIN s.groupRanksLastFetched
    THEN s.groupRanksLastFetched[gid] ELSE 0

RECURSIVE requestRanks(_, _)
requestRanks(s, gids) ==
    IF gids = << >> THEN s
    ELSE requestRanks(IF s.now - lastFetched(s, Head(gids)) > StaleDataAge
                      THEN apiGetGroupRanks(s, Head(gids)) ELSE s,
                      Tail(gids))

(* DomainServerSettingsManager::apiRefreshGroupInformation                  *)
apiRefreshGroupInformation(s) ==
    IF ~s.hasAuthEndpoint THEN s
    ELSE requestRanks(
             requestIDs(s, idsInOrder(getAllKnownGroupNames(s), s.hashSeed)),
             idsInOrder(DOMAIN s.groupNames, s.hashSeed))

-----------------------------------------------------------------------------
(* unpackPermissions                                                       *)

(* The loops over the standard and the named-user list: every record is    *)
(* keyed (id, 0); a duplicate key is merged with |=.                       *)
RECURSIVE unpackNamed(_, _)
unpackNamed(list, acc) ==
    IF list = << >> THEN acc
    ELSE LET perms == NodePermissionsFromMap(toMap(Head(list)))
             idKey == Key(perms.id, 0)
             dup == mapContains(acc.m, idKey)
         IN  unpackNamed(Tail(list),
                 [m |-> IF dup
                        THEN mapSet(acc.m, idKey, orAssign(acc.m[idKey], perms))
                        ELSE mapSet(acc.m, idKey, perms),
                  needPack |-> acc.needPack \/ dup])

(* The loop over the group list.                                           *)
RECURSIVE unpackGroupPermissions(_, _)
unpackGroupPermissions(list, acc) ==
    IF list = << >> THEN acc
    ELSE LET perms == NodePermissionsFromMap(toMap(Head(list)))
             idKey == getKey(perms)
             dup == mapContains(acc.s.groupPermissions, idKey)
             s1 == [acc.s EXCEPT !.groupPermissions =
                       IF dup THEN mapSet(@, idKey, orAssign(@[idKey], perms))
                       ELSE mapSet(@, idKey, perms)]
             s2 == [s1 EXCEPT !.groupPermissionsByUUID =
                       indexSet(@, << perms.groupID, perms.rank >>,
                                liveRef("perm", idKey))]
             r == setGroupID(s2, perms.id, perms.groupID)
         IN  unpackGroupPermissions(Tail(list),
                 IF isGroup(perms)
                 THEN [s |-> r.s, needPack |-> acc.needPack \/ dup \/ r.changed]
                 ELSE [s |-> s1, needPack |-> acc.needPack \/ dup])

(* The loop over the group-forbidden list.  The index entry is taken from  *)
(* _groupPermissions[idKey], which creates that entry when it is missing.  *)
RECURSIVE unpackGroupForbiddens(_, _)
unpackGroupForbiddens(list, acc) ==
    IF list = << >> THEN acc
    ELSE LET perms == NodePermissionsFromMap(toMap(Head(list)))
             idKey == getKey(perms)
             dup == mapContains(acc.s.groupForbiddens, idKey)
             s1 == [acc.s EXCEPT !.groupForbiddens =
                       IF dup THEN mapSet(@, idKey, orAssign(@[idKey], perms))
                       ELSE mapSet(@, idKey, perms)]
             s2 == [s1 EXCEPT
                       !.groupPermissions = mapIndex(@, idKey),
                       !.groupForbiddensByUUID =
                           indexSet(@, << perms.groupID, perms.rank >>,
                                    liveRef("perm", idKey))]
             r == setGroupID(s2, perms.id, perms.groupID)
         IN  unpackGroupForbiddens(Tail(list),
                 IF isGroup(perms)
                 THEN [s |-> r.s, needPack |-> acc.needPack \/ dup \/ r.changed]
                 ELSE [s |-> s1, needPack |-> acc.needPack \/ dup])

(* The list at a key path of the user document, created empty when the     *)
(* path holds no list.                                                     *)
listOrCreate(m, path) ==
    IF IsList(valueForKeyPath(m, path)) THEN m
    ELSE setKeyPath(m, path, ListV(<< >>))

(* A slip in unpackPermissions: a missing standard name is not added.      *)
addStandardNameSkipped(m, key, all) == m

(* A slip in unpackPermissions: a missing localhost is added like the      *)
(* other names, without capabilities.                                      *)
addStandardNameBare(m, key, all) ==
    IF \E k \in DOMAIN m : k = key THEN m
    ELSE mapSet(m, key, NewNodePermissions(key))

(* unpackPermissions, lines 489-510: a standard name that was not found.   *)
addStandardName(m, key, all) ==
    IF \E k \in DOMAIN m : k = key THEN m
    ELSE mapSet(m, key, setAll(NewNodePermissions(key), all))

(* DomainServerSettingsManager::unpackPermissions                          *)
unpackPermissions(s) ==
    LET listAt(s0, path) == toList(valueForKeyPath(s0.userConfig, path))
        finish(needPack, ens) ==
            apiRefreshGroupInformation(
                IF needPack \/ ens.changed THEN packPermissions(ens.s)
                ELSE ens.s)
        standard(std, usr, needPack, frb) ==
            LET found(key) == key \in DOMAIN std.m
                missing ==
                    \E key \in {standardNameLocalhost, standardNameAnonymous,
                                standardNameLoggedIn, standardNameFriends} :
                       ~found(key)
                stdAll == addStandardName(addStandardName(addStandardName(
                              addStandardName(std.m, standardNameLocalhost, TRUE),
                              standardNameAnonymous, FALSE),
                              standardNameLoggedIn, FALSE),
                              standardNameFriends, FALSE)
            IN  finish(\/ std.needPack \/ usr.needPack \/ needPack
                       \/ frb.needPack \/ missing,
                       ensurePermissionsForGroupRanks(
                           [frb.s EXCEPT !.standardAgentPermissions = stdAll,
                                         !.agentPermissions = usr.m]))
        forbiddens(s0, std, usr, grp) ==
            standard(std, usr, grp.needPack,
                unpackGroupForbiddens(listAt(s0, GROUP_FORBIDDENS_KEYPATH),
                                      [s |-> grp.s, needPack |-> FALSE]))
        lists(s0) ==
            forbiddens(s0,
                unpackNamed(listAt(s0, AGENT_STANDARD_PERMISSIONS_KEYPATH),
                            [m |-> EmptyPermissionsMap, needPack |-> FALSE]),
                unpackNamed(listAt(s0, AGENT_PERMISSIONS_KEYPATH),
                            [m |-> EmptyPermissionsMap, needPack |-> FALSE]),
                unpackGroupPermissions(listAt(s0, GROUP_PERMISSIONS_KEYPATH),
                                       [s |-> s0, needPack |-> FALSE]))
    IN  lists([log(s, "unpack") EXCEPT
                  !.standardAgentPermissions = EmptyPermissionsMap,
                  !.agentPermissions = EmptyPermissionsMap,
                  !.groupPermissions = EmptyPermissionsMap,
                  !.groupForbiddens = EmptyPermissionsMap,
                  !.groupPermissionsByUUID = detach(s, @),
                  !.groupForbiddensByUUID = detach(s, @),
                  !.userConfig =
                      listOrCreate(listOrCreate(listOrCreate(listOrCreate(@,
                          AGENT_STANDARD_PERMISSIONS_KEYPATH),
                          AGENT_PERMISSIONS_KEYPATH),
                          GROUP_PERMISSIONS_KEYPATH),
                          GROUP_FORBIDDENS_KEYPATH)])

-----------------------------------------------------------------------------
(* The settings description (_descriptionArray): a JSON array of groups,   *)
(* each with its settings.  The last group has no name: its settings are   *)
(* root values.                                                            *)

Obj2(k1, v1, k2, v2) == (k1 :> v1) @@ (k2 :> v2)
Obj3(k1, v1, k2, v2, k3, v3) == (k1 :> v1) @@ (k2 :> v2) @@ (k3 :> v3)

Setting(name, type) == MapV(Obj2("name", StrV(name), "type", StrV(type)))

SettingWithDefault(name, type, default) ==
    MapV(Obj3("name", StrV(name), "type", StrV(type), "default", default))

descriptionArray ==
    << MapV(Obj2("name", StrV("security"), "settings", ListV(
          << MapV(Obj3("name", StrV("http_password"), "type", StrV("password"),
                       "value-hidden", BoolV(TRUE))),
             SettingWithDefault("restricted_access", "checkbox", BoolV(FALSE)),
             Setting("standard_permissions", "table"),
             Setting("permissions", "table"),
             Setting("group_permissions", "table"),
             Setting("group_forbiddens", "table") >>))),
       MapV(Obj3("name", StrV("entity_server_settings"),
                 "assignment-types", ListV(<< NumV(6) >>),
                 "settings", ListV(
          << SettingWithDefault("persistFilePath", "string", StrV("home")),
             MapV(Obj3("name", StrV("token"), "type", StrV("string"),
                       "value-hidden", BoolV(TRUE))) >>))),
       MapV(Obj3("name", StrV("audio_env"),
                 "assignment-types", ListV(<< NumV(0) >>),
                 "settings", ListV(
          << SettingWithDefault("attenuation", "double", NumV(1)),
             MapV(Obj3("name", StrV("wizard"), "type", StrV("int"),
                       "assignment-types", ListV(<< NumV(6) >>))) >>))),
       MapV(("label" :> StrV("paths")) @@ ("settings" :> ListV(
          << MapV(Obj3("name", StrV("paths"), "type", StrV("table"),
                       "columns", ListV(<< Setting("viewpoint", "string") >>))),
             Setting("motd", "string") >>))) >>

SETTINGS_VIEWPOINT_KEY == "viewpoint"
SETTINGS_PATHS_KEY == "paths"

(* QString::startsWith('/') and prepend('/'), QString::toDouble / toInt    *)
startsWithSlash(x) == x \in {"/", "/home", "/lobby", "//home"}
prependSlash(x) ==
    CASE x = "home" -> "/home"
      [] x = "lobby" -> "/lobby"
      [] x = "" -> "/"
      [] OTHER -> "//home"
stringToNumber(x) ==
    CASE x = "42" -> 42
      [] x = "6" -> 6
      [] OTHER -> 0

(* DomainServerSettingsManager::settingDescriptionFromGroup                 *)
RECURSIVE firstNamed(_, _)
firstNamed(list, name) ==
    IF list = << >> THEN EmptyMap
    ELSE IF toString(MapValue(toMap(Head(list)), "name")) = name
    THEN toMap(Head(list))
    ELSE firstNamed(Tail(list), name)

settingDescriptionFromGroup(groupObject, settingName) ==
    firstNamed(toList(MapValue(groupObject, "settings")), settingName)

(* The column of a description that is an object named childKey, if any.   *)
RECURSIVE columnNamed(_, _, _)
columnNamed(columns, childKey, otherwise) ==
    IF columns = << >> THEN otherwise
    ELSE IF IsMap(Head(columns))
            /\ MapValue(Head(columns).m, "name") = StrV(childKey)
    THEN Head(columns).m
    ELSE columnNamed(Tail(columns), childKey, otherwise)

(* A slip in updateSetting: an empty string is stored like any value.      *)
updateSettingStoresEmpty(key, newValue, settingMap, settingDescription) ==
    MapSet(settingMap, key, newValue)

(* DomainServerSettingsManager::updateSetting, on the map the setting      *)
(* lives in (the sort it ends with is applied by its caller).              *)
RECURSIVE updateSetting(_, _, _, _)
RECURSIVE updateChildren(_, _, _, _, _)
updateChildren(key, childKeys, newObject, thisMap, settingDescription) ==
    IF childKeys = << >> THEN thisMap
    ELSE LET childKey == Head(childKeys)
             childDescription ==
                 IF key # toString(MapValue(settingDescription, "name"))
                 THEN columnNamed(toList(MapValue(settingDescription, "columns")),
                                  childKey, settingDescription)
                 ELSE settingDescription
             sanitizedKey ==
                 IF key = SETTINGS_PATHS_KEY /\ ~startsWithSlash(childKey)
                 THEN prependSlash(childKey) ELSE childKey
         IN  updateChildren(key, Tail(childKeys), newObject,
                 updateSetting(sanitizedKey, newObject[childKey], thisMap,
                               childDescription),
                 settingDescription)

updateSetting(key, newValue, settingMap, settingDescription) ==
    CASE newValue.t = "str" ->
            IF newValue.s = "" THEN MapRemove(settingMap, key)
            ELSE LET settingType ==
                         toString(MapValue(settingDescription, "type"))
                 IN  IF settingType \in {"double", "int"}
                     THEN MapSet(settingMap, key, NumV(stringToNumber(newValue.s)))
                     ELSE IF key = SETTINGS_VIEWPOINT_KEY
                             /\ ~startsWithSlash(newValue.s)
                     THEN MapSet(settingMap, key, StrV(prependSlash(newValue.s)))
                     ELSE MapSet(settingMap, key, newValue)
      [] newValue.t = "bool" -> MapSet(settingMap, key, newValue)
      [] newValue.t = "map" ->
            LET possibleMap ==
                    IF key \in DOMAIN settingMap /\ IsMap(settingMap[key])
                    THEN settingMap[key].m ELSE EmptyMap
                thisMap ==
                    updateChildren(key, idsInOrder(DOMAIN newValue.m, 0),
                                   newValue.m, possibleMap, settingDescription)
            IN  IF DOMAIN thisMap = {} THEN MapRemove(settingMap, key)
                ELSE MapSet(settingMap, key, MapV(thisMap))
      [] newValue.t = "list" -> MapSet(settingMap, key, newValue)
      [] OTHER -> settingMap

-----------------------------------------------------------------------------
(* The write POST.                                                         *)

(* The group of the description array named rootKey, or the empty object.  *)
RECURSIVE groupNamed(_, _)
groupNamed(groups, rootKey) ==
    IF groups = << >> THEN EmptyMap
    ELSE IF MapValue(toMap(Head(groups)), "name") = StrV(rootKey)
    THEN toMap(Head(groups))
    ELSE groupNamed(Tail(groups), rootKey)

(* The description of root value rootKey in the groups without a name.     *)
RECURSIVE rootDescription(_, _)
rootDescription(groups, rootKey) ==
    IF groups = << >> THEN EmptyMap
    ELSE LET groupObject == toMap(Head(groups))
             found == settingDescriptionFromGroup(groupObject, rootKey)
         IN  IF "name" \notin DOMAIN groupObject /\ DOMAIN found # {}
             THEN found
             ELSE rootDescription(Tail(groups), rootKey)

(* A slip in the group loop: the restart flag is set for "security" too.   *)
RECURSIVE updateGroupAlwaysRestarts(_, _, _, _, _)
updateGroupAlwaysRestarts(acc, rootKey, settingKeys, rootObject, groupDescriptionObject) ==
    IF settingKeys = << >> THEN acc
    ELSE LET settingKey == Head(settingKeys)
             description ==
                 settingDescriptionFromGroup(groupDescriptionObject, settingKey)
             thisMap == toMap(acc.s.userConfig[rootKey])
             s1 == sortPermissions([acc.s EXCEPT !.userConfig =
                       MapSet(@, rootKey,
                           MapV(updateSetting(settingKey, rootObject[settingKey],
                                              thisMap, description)))])
         IN  updateGroupAlwaysRestarts(
                 IF DOMAIN description # {}
                 THEN [s |-> s1, needRestart |-> TRUE]
                 ELSE acc,
                 rootKey, Tail(settingKeys), rootObject, groupDescriptionObject)

(* The settings of one posted group, applied to the group's map.           *)
RECURSIVE updateGroup(_, _, _, _, _)
updateGroup(acc, rootKey, settingKeys, rootObject, groupDescriptionObject) ==
    IF settingKeys = << >> THEN acc
    ELSE LET settingKey == Head(settingKeys)
             description ==
                 settingDescriptionFromGroup(groupDescriptionObject, settingKey)
             thisMap == toMap(acc.s.userConfig[rootKey])
             s1 == sortPermissions([acc.s EXCEPT !.userConfig =
                       MapSet(@, rootKey,
                           MapV(updateSetting(settingKey, rootObject[settingKey],
                                              thisMap, description)))])
         IN  updateGroup(
                 IF DOMAIN description # {}
                 THEN [s |-> s1,
                       needRestart |-> acc.needRestart \/ rootKey # "security"]
                 ELSE acc,
                 rootKey, Tail(settingKeys), rootObject, groupDescriptionObject)

(* A slip in the pass over a root key: a root key whose map ends empty is  *)
(* left in the user map.                                                   *)
updateRootKeepsEmpty(acc, rootKey, rootValue) ==
    LET s0 == IF rootKey \in DOMAIN acc.s.userConfig THEN acc.s
              ELSE [acc.s EXCEPT !.userConfig =
                       MapSet(@, rootKey, MapV(EmptyMap))]
        groupDescriptionObject == groupNamed(descriptionArray, rootKey)
        matching == rootDescription(descriptionArray, rootKey)
    IN  IF DOMAIN groupDescriptionObject = {}
        THEN IF DOMAIN matching # {}
             THEN [s |-> sortPermissions([s0 EXCEPT !.userConfig =
                             updateSetting(rootKey, rootValue, @, matching)]),
                   needRestart |-> acc.needRestart \/ rootKey # "security"]
             ELSE [s |-> s0, needRestart |-> acc.needRestart]
        ELSE updateGroup([s |-> s0, needRestart |-> acc.needRestart],
                 rootKey, idsInOrder(DOMAIN toMap(rootValue), 0),
                 toMap(rootValue), groupDescriptionObject)

(* One root key of the posted object.                                      *)
updateRoot(acc, rootKey, rootValue) ==
    LET s0 == IF rootKey \in DOMAIN acc.s.userConfig THEN acc.s
              ELSE [acc.s EXCEPT !.userConfig =
                       MapSet(@, rootKey, MapV(EmptyMap))]
        groupDescriptionObject == groupNamed(descriptionArray, rootKey)
        matching == rootDescription(descriptionArray, rootKey)
        cleared(done) ==
            [s |-> IF DOMAIN toMap(MapValue(done.s.userConfig, rootKey)) = {}
                   THEN [done.s EXCEPT !.userConfig = MapRemove(@, rootKey)]
                   ELSE done.s,
             needRestart |-> done.needRestart]
    IN  cleared(
            IF DOMAIN groupDescriptionObject = {}
            THEN IF DOMAIN matching # {}
                 THEN [s |-> sortPermissions([s0 EXCEPT !.userConfig =
                                 updateSetting(rootKey, rootValue, @, matching)]),
                       needRestart |->
                           acc.needRestart \/ rootKey # "security"]
                 ELSE [s |-> s0, needRestart |-> acc.needRestart]
            ELSE updateGroup([s |-> s0, needRestart |-> acc.needRestart],
                     rootKey, idsInOrder(DOMAIN toMap(rootValue), 0),
                     toMap(rootValue), groupDescriptionObject))

RECURSIVE updateRoots(_, _, _)
updateRoots(acc, rootKeys, postedObject) ==
    IF rootKeys = << >> THEN acc
    ELSE updateRoots(updateRoot(acc, Head(rootKeys), postedObject[Head(rootKeys)]),
                     Tail(rootKeys), postedObject)

(* DomainServerSettingsManager::recurseJSONObjectAndOverwriteSettings: the *)
(* new state and needRestart.                                              *)
recurseJSONObjectAndOverwriteSettings(s, postedObject) ==
    LET merged(r) ==
            [s |-> mergeMasterAndUserConfigs(r.s), needRestart |-> r.needRestart]
    IN  merged(updateRoots([s |-> log(s, "apply"), needRestart |-> FALSE],
                           idsInOrder(DOMAIN postedObject, 0), postedObject))

(* A POST handler that answers before it writes the settings file.         *)
handlePostRespondsFirst(s, postedObject) ==
    LET respond(restartRequired, s1) ==
            [s |-> IF restartRequired THEN log(s1, "restart-scheduled")
                   ELSE unpackPermissions(s1),
             restart |-> restartRequired]
        persist(r) ==
            respond(r.needRestart, persistToFile(log(r.s, "respond")))
    IN  persist(recurseJSONObjectAndOverwriteSettings(s, postedObject))

(* DomainServerSettingsManager::handleAuthenticatedHTTPRequest, the POST:  *)
(* the new state and whether a restart was scheduled.                      *)
handlePost(s, postedObject) ==
    LET respond(restartRequired, s1) ==
            [s |-> IF restartRequired THEN log(s1, "restart-scheduled")
                   ELSE unpackPermissions(s1),
             restart |-> restartRequired]
        persist(r) ==
            respond(r.needRestart, log(persistToFile(r.s), "respond"))
    IN  persist(recurseJSONObjectAndOverwriteSettings(s, postedObject))

-----------------------------------------------------------------------------
(* The directory callbacks.                                                *)

(* A slip in the callback: the status of the reply is not looked at.       *)
apiGetGroupIDJSONCallbackAnyStatus(s, status, groupName, gid) ==
    LET then(r) ==
            IF r.changed THEN apiGetGroupRanks(packPermissions(r.s), gid)
            ELSE r.s
    IN  then(setGroupID(log(s, "group-id"), groupName, gid))

(* DomainServerSettingsManager::apiGetGroupIDJSONCallback, for a reply     *)
(* that names one group.                                                   *)
apiGetGroupIDJSONCallback(s, status, groupName, gid) ==
    IF status # "success" THEN s
    ELSE LET then(r) ==
                 IF r.changed THEN apiGetGroupRanks(packPermissions(r.s), gid)
                 ELSE r.s
         IN  then(setGroupID(log(s, "group-id"), groupName, gid))

(* A slip in the loop over the ranks: each name is appended to the list    *)
(* instead of being stored at its order.                                   *)
setRanksAppended(acc, ranks) ==
    [names |-> acc.names \o [i \in 1..Len(ranks) |-> ranks[i].name],
     changed |-> acc.changed \/ ranks # << >>]

(* The loop over the ranks of a reply: the rank names and `changed`.       *)
RECURSIVE setRanks(_, _)
setRanks(acc, ranks) ==
    IF ranks = << >> THEN acc
    ELSE LET rankName == Head(ranks).name
             rankOrder == Head(ranks).order
             grown == IF Len(acc.names) < rankOrder + 1
                      THEN [i \in 1..(rankOrder + 1) |->
                               IF i <= Len(acc.names) THEN acc.names[i] ELSE ""]
                      ELSE acc.names
         IN  setRanks([names |-> [grown EXCEPT ![rankOrder + 1] = rankName],
                       changed |-> \/ acc.changed
                                   \/ Len(acc.names) < rankOrder + 1
                                   \/ grown[rankOrder + 1] # rankName],
                      Tail(ranks))

(* DomainServerSettingsManager::apiGetGroupRanksJSONCallback, for a reply  *)
(* that lists the ranks of one group.                                      *)
apiGetGroupRanksJSONCallback(s, status, gid, ranks) ==
    IF status # "success" THEN s
    ELSE LET r == setRanks([names |-> rankNamesOf(s, gid), changed |-> FALSE],
                           ranks)
             then(e) ==
                 IF r.changed \/ e.changed THEN packPermissions(e.s) ELSE e.s
         IN  then(ensurePermissionsForGroupRanks(
                      [log(s, "group-ranks") EXCEPT
                          !.groupRanks = IF ranks = << >> THEN @
                                         ELSE MapSet(@, gid, r.names)]))

-----------------------------------------------------------------------------
(* setupConfigMap: the steps that re-map an older settings file.  Versions *)
(* are counted in tenths (1.4 is 14).                                      *)

ALLOWED_USERS_SETTINGS_KEYPATH == << "security", "allowed_users" >>
RESTRICTED_ACCESS_SETTINGS_KEYPATH == << "security", "restricted_access" >>
ALLOWED_EDITORS_SETTINGS_KEYPATH == << "security", "allowed_editors" >>
EDITORS_ARE_REZZERS_KEYPATH == << "security", "editors_are_rezzers" >>
BASIC_AUTH_PASSWORD_KEY_PATH == << "security", "http_password" >>

(* DomainServerSettingsManager::valueOrDefaultValueForKeyPath, for a path  *)
(* group.setting                                                           *)
valueOrDefaultValueForKeyPath(s, keyPath) ==
    LET foundValue == valueForKeyPath(s.mergedConfig, keyPath)
        group == groupNamed(descriptionArray, keyPath[1])
        setting == settingDescriptionFromGroup(group, keyPath[2])
    IN  IF foundValue # Absent THEN foundValue
        ELSE MapValue(setting, "default")

toStringList(v) == [i \in 1..Len(toList(v)) |-> toString(toList(v)[i])]

(* A slip in the first step: the restricted-access flag is left alone.     *)
migrateRestrictedAccessSkipped(s) == s

(* oldVersion < 1.0                                                        *)
migrateRestrictedAccess(s) ==
    LET allowedUsers == valueForKeyPath(s.mergedConfig,
                                        ALLOWED_USERS_SETTINGS_KEYPATH)
    IN  IF IsList(allowedUsers) /\ Len(allowedUsers.l) > 0
        THEN loadMasterAndUserConfig(persistToFile(
                 [s EXCEPT !.userConfig =
                     setKeyPath(@, RESTRICTED_ACCESS_SETTINGS_KEYPATH,
                                BoolV(TRUE))]))
        ELSE s

(* A slip in the second step: the renamed key is not written to the file.  *)
migratePersistFilenameUnsaved(s) ==
    LET name == valueForKeyPath(s.mergedConfig,
                    << "entity_server_settings", "persistFilename" >>)
        u1 == setKeyPath(s.userConfig,
                  << "entity_server_settings", "persistFilePath" >>,
                  StrV(toString(name)))
    IN  IF name # Absent /\ canConvertString(name)
        THEN [s EXCEPT !.userConfig = u1]
        ELSE s

(* oldVersion < 1.1                                                        *)
migratePersistFilename(s) ==
    LET name == valueForKeyPath(s.mergedConfig,
                    << "entity_server_settings", "persistFilename" >>)
        u1 == setKeyPath(s.userConfig,
                  << "entity_server_settings", "persistFilePath" >>,
                  StrV(toString(name)))
        u2 == IF IsMap(valueForKeyPath(u1, << "entity_server_settings" >>))
              THEN MapSet(u1, "entity_server_settings",
                       MapV(MapRemove(u1["entity_server_settings"].m,
                                      "persistFilename")))
              ELSE u1
    IN  IF name # Absent /\ canConvertString(name)
        THEN loadMasterAndUserConfig(persistToFile([s EXCEPT !.userConfig = u2]))
        ELSE s

(* A slip in the third step: the password is left as it is.                *)
migratePasswordUnhashed(s) == s

(* oldVersion < 1.2                                                        *)
migratePassword(s) ==
    LET password == valueForKeyPath(s.userConfig, BASIC_AUTH_PASSWORD_KEY_PATH)
    IN  IF password # Absent /\ canConvertString(password)
        THEN loadMasterAndUserConfig(persistToFile(
                 [s EXCEPT !.userConfig =
                     setKeyPath(@, BASIC_AUTH_PASSWORD_KEY_PATH,
                                StrV(Sha256Hex(toString(password))))]))
        ELSE s

RECURSIVE addAllowedUsers(_, _)
addAllowedUsers(m, users) ==
    IF users = << >> THEN m
    ELSE addAllowedUsers(
             mapSet(m, Key(Head(users), 0),
                    setPermission(NewNodePermissions(Key(Head(users), 0)),
                                  "connect")),
             Tail(users))

(* A slip in the loop over the editors: an editor always gets a new entry, *)
(* also when the loop over the allowed users has made one.                 *)
RECURSIVE addAllowedEditorsAnew(_, _, _)
addAllowedEditorsAnew(m, editors, isRestrictedAccess) ==
    IF editors = << >> THEN m
    ELSE addAllowedEditorsAnew(
             mapSet(m, Key(Head(editors), 0),
                    setPermission(NewNodePermissions(Key(Head(editors), 0)),
                                  "locks")),
             Tail(editors), isRestrictedAccess)

RECURSIVE addAllowedEditors(_, _, _)
addAllowedEditors(m, editors, isRestrictedAccess) ==
    IF editors = << >> THEN m
    ELSE LET editorKey == Key(Head(editors), 0)
             m1 == IF mapContains(m, editorKey) THEN m
                   ELSE mapSet(m, editorKey,
                            IF isRestrictedAccess
                            THEN clearPermission(NewNodePermissions(editorKey),
                                                 "connect")
                            ELSE NewNodePermissions(editorKey))
         IN  addAllowedEditors(
                 mapSet(m1, editorKey, setPermission(m1[editorKey], "locks")),
                 Tail(editors), isRestrictedAccess)

(* A slip in the rez rule: the flag is not looked at.                      *)
setRezzersForAll(m, onlyEditorsAreRezzers) ==
    [k \in DOMAIN m |-> setPermission(setPermission(m[k], "rez"), "rez_tmp")]

setRezzers(m, onlyEditorsAreRezzers) ==
    [k \in DOMAIN m |->
        IF onlyEditorsAreRezzers /\ ~can(m[k], "locks")
        THEN clearPermission(clearPermission(m[k], "rez"), "rez_tmp")
        ELSE setPermission(setPermission(m[k], "rez"), "rez_tmp")]

(* oldVersion < 1.4                                                        *)
migratePermissions(s) ==
    LET isRestrictedAccess ==
            toBool(valueOrDefaultValueForKeyPath(s,
                       RESTRICTED_ACCESS_SETTINGS_KEYPATH))
        allowedUsers ==
            toStringList(valueOrDefaultValueForKeyPath(s,
                             ALLOWED_USERS_SETTINGS_KEYPATH))
        allowedEditors ==
            toStringList(valueOrDefaultValueForKeyPath(s,
                             ALLOWED_EDITORS_SETTINGS_KEYPATH))
        onlyEditorsAreRezzers ==
            toBool(valueOrDefaultValueForKeyPath(s, EDITORS_ARE_REZZERS_KEYPATH))
        plain(key) ==
            IF isRestrictedAccess
            THEN clearPermission(NewNodePermissions(key), "connect")
            ELSE NewNodePermissions(key)
        std == mapSet(mapSet(mapSet(mapSet(s.standardAgentPermissions,
                   standardNameLocalhost,
                   setAll(NewNodePermissions(standardNameLocalhost), TRUE)),
                   standardNameAnonymous, plain(standardNameAnonymous)),
                   standardNameLoggedIn, plain(standardNameLoggedIn)),
                   standardNameFriends, NewNodePermissions(standardNameFriends))
        usr == addAllowedEditors(addAllowedUsers(s.agentPermissions, allowedUsers),
                                 allowedEditors, isRestrictedAccess)
        packed == packPermissions(
                      [s EXCEPT
                          !.standardAgentPermissions =
                              setRezzers(std, onlyEditorsAreRezzers),
                          !.agentPermissions =
                              setRezzers(usr, onlyEditorsAreRezzers)])
    IN  [packed EXCEPT !.standardAgentPermissions = EmptyPermissionsMap,
                       !.agentPermissions = EmptyPermissionsMap]

(* DomainServerSettingsManager::validateDescriptorsMap                     *)
validateDescriptorsMap(s) ==
    LET hours == ListV(<< MapV(Obj2("open", StrV("00:00"),
                                    "close", StrV("23:59"))) >>)
        fill(m, path, v) ==
            IF valueForKeyPath(m, path) \in {Absent, NullV}
            THEN setKeyPath(m, path, v) ELSE createKeyPath(m, path)
        isNull(path) == valueForKeyPath(s.userConfig, path) \in {Absent, NullV}
        u == fill(fill(fill(s.userConfig,
                 << "descriptors", "weekday_hours" >>, hours),
                 << "descriptors", "weekend_hours" >>, hours),
                 << "descriptors", "utc_offset" >>, NumV(0))
        wasMalformed == \/ isNull(<< "descriptors", "weekday_hours" >>)
                        \/ isNull(<< "descriptors", "weekend_hours" >>)
                        \/ isNull(<< "descriptors", "utc_offset" >>)
    IN  IF wasMalformed
        THEN loadMasterAndUserConfig(persistToFile([s EXCEPT !.userConfig = u]))
        ELSE [s EXCEPT !.userConfig = u]

(* The re-mapping of a step, whatever the stored version.                  *)
migrationStepUngated(s, version) ==
    CASE version = 10 -> migrateRestrictedAccess(s)
      [] version = 11 -> migratePersistFilename(s)
      [] version = 12 -> migratePassword(s)
      [] version = 14 -> migratePermissions(s)
      [] version = 15 -> validateDescriptorsMap(s)

(* The step of setupConfigMap for the versions below `version`.            *)
migrationStep(s, version) ==
    IF ~(s.storedVersion < version) THEN s
    ELSE CASE version = 10 -> migrateRestrictedAccess(s)
           [] version = 11 -> migratePersistFilename(s)
           [] version = 12 -> migratePassword(s)
           [] version = 14 -> migratePermissions(s)
           [] version = 15 -> validateDescriptorsMap(s)

(* The end of setupConfigMap: the unpack, and the version written.         *)
finishSetup(s) ==
    [unpackPermissions(s) EXCEPT !.storedVersion = s.descriptionVersion]

(* DomainServerSettingsManager::setupConfigMap, uninterrupted.             *)
setupConfigMap(s) ==
    LET s0 == loadMasterAndUserConfig(s)
    IN  finishSetup(
            IF s0.storedVersion = s0.descriptionVersion THEN s0
            ELSE migrationStep(migrationStep(migrationStep(migrationStep(
                     migrationStep(s0, 10), 11), 12), 14), 15))

-----------------------------------------------------------------------------
(* The lookups.                                                            *)

(* A slip in the lookups: the entry for a missing key allows everything.   *)
allPermissions == setAll(NewNodePermissions(<< "", 0 >>), TRUE)

(* NodePermissions nullPermissions; nullPermissions.setAll(false)          *)
nullPermissions == setAll(NewNodePermissions(<< "", 0 >>), FALSE)

(* DomainServerSettingsManager::getStandardPermissionsForName              *)
getStandardPermissionsForName(s, name) ==
    IF mapContains(s.standardAgentPermissions, name)
    THEN s.standardAgentPermissions[Key(name[1], name[2])]
    ELSE nullPermissions

(* DomainServerSettingsManager::getPermissionsForName                      *)
getPermissionsForName(s, name) ==
    IF mapContains(s.agentPermissions, << name, 0 >>)
    THEN s.agentPermissions[Key(name, 0)]
    ELSE nullPermissions

(* DomainServerSettingsManager::getPermissionsForGroup(groupName, rank)    *)
getPermissionsForGroup(s, groupName, rank) ==
    IF mapContains(s.groupPermissions, << groupName, rank >>)
    THEN s.groupPermissions[Key(groupName, rank)]
    ELSE nullPermissions

(* DomainServerSettingsManager::getPermissionsForGroup(groupID, rank)      *)
getPermissionsForGroupID(s, groupID, rank) ==
    IF << groupID, rank >> \notin DOMAIN s.groupPermissionsByUUID
    THEN nullPermissions
    ELSE LET groupKey ==
                 getKey(deref(s, s.groupPermissionsByUUID[<< groupID, rank >>]))
         IN  getPermissionsForGroup(s, groupKey[1], groupKey[2])

(* DomainServerSettingsManager::getForbiddensForGroup(groupName, rank)     *)
getForbiddensForGroup(s, groupName, rank) ==
    IF mapContains(s.groupForbiddens, << groupName, rank >>)
    THEN s.groupForbiddens[Key(groupName, rank)]
    ELSE nullPermissions

(* DomainServerSettingsManager::getForbiddensForGroup(groupID, rank)       *)
getForbiddensForGroupID(s, groupID, rank) ==
    IF << groupID, rank >> \notin DOMAIN s.groupForbiddensByUUID
    THEN nullPermissions
    ELSE LET groupKey ==
                 getKey(deref(s, s.groupForbiddensByUUID[<< groupID, rank >>]))
         IN  getForbiddensForGroup(s, groupKey[1], groupKey[2])

-----------------------------------------------------------------------------
(* The settings reads.                                                     *)

(* A read that looks at the group's assignment-types only.                 *)
includesSettingOfGroupTypes(groupObject, settingObject, queryType, isAuthenticated) ==
    LET affectedTypesArray == toList(MapValue(groupObject, "assignment-types"))
    IN  /\ ~toBool(MapValue(settingObject, "value-hidden"))
        /\ \/ \E i \in 1..Len(affectedTypesArray) :
                 affectedTypesArray[i] = queryType
           \/ queryType = NullV /\ isAuthenticated

(* Whether a setting is part of the response for queryType.                *)
includesSetting(groupObject, settingObject, queryType, isAuthenticated) ==
    LET own == toList(MapValue(settingObject, "assignment-types"))
        affectedTypesArray ==
            IF own = << >>
            THEN toList(MapValue(groupObject, "assignment-types")) ELSE own
    IN  /\ ~toBool(MapValue(settingObject, "value-hidden"))
        /\ \/ \E i \in 1..Len(affectedTypesArray) :
                 affectedTypesArray[i] = queryType
           \/ queryType = NullV /\ isAuthenticated

(* The value sent for a setting: the merged value, or the default.         *)
settingResult(s, groupKey, settingObject) ==
    LET settingName == toString(MapValue(settingObject, "name"))
        settingsMapGroupValue == MapValue(s.mergedConfig, groupKey)
        variantValue ==
            IF groupKey # ""
            THEN IF settingsMapGroupValue # NullV
                 THEN MapValue(toMap(settingsMapGroupValue), settingName)
                 ELSE NullV
            ELSE MapValue(s.mergedConfig, settingName)
    IN  IF variantValue = NullV
        THEN IF "default" \in DOMAIN settingObject
             THEN settingObject["default"] ELSE StrV("")
        ELSE variantValue

(* The settings of one group that are part of the response.                *)
RECURSIVE groupResponse(_, _, _, _, _)
groupResponse(s, groupObject, settings, queryType, isAuthenticated) ==
    IF settings = << >> THEN EmptyMap
    ELSE LET settingObject == toMap(Head(settings))
             rest == groupResponse(s, groupObject, Tail(settings), queryType,
                                   isAuthenticated)
             groupKey == toString(MapValue(groupObject, "name"))
         IN  IF includesSetting(groupObject, settingObject, queryType,
                                isAuthenticated)
             THEN IF toString(MapValue(settingObject, "name")) \in DOMAIN rest
                  THEN rest
                  ELSE rest @@ (toString(MapValue(settingObject, "name")) :>
                                   settingResult(s, groupKey, settingObject))
             ELSE rest

RECURSIVE groupsResponse(_, _, _, _, _)
groupsResponse(s, groups, queryType, isAuthenticated, responseObject) ==
    IF groups = << >> THEN responseObject
    ELSE LET groupObject == toMap(Head(groups))
             groupKey == toString(MapValue(groupObject, "name"))
             groupResponseObject ==
                 groupResponse(s, groupObject,
                               toList(MapValue(groupObject, "settings")),
                               queryType, isAuthenticated)
         IN  groupsResponse(s, Tail(groups), queryType, isAuthenticated,
                 IF groupKey = ""
                 THEN groupResponseObject @@ responseObject
                 ELSE IF DOMAIN groupResponseObject # {}
                 THEN MapSet(responseObject, groupKey, MapV(groupResponseObject))
                 ELSE responseObject)

(* DomainServerSettingsManager::responseObjectForType                      *)
responseObjectForType(s, typeValue, isAuthenticated) ==
    IF typeValue = "" /\ ~isAuthenticated THEN EmptyMap
    ELSE groupsResponse(s, descriptionArray,
                        IF typeValue = "" THEN NullV
                        ELSE NumV(stringToNumber(typeValue)),
                        isAuthenticated, EmptyMap)

SETTINGS_PATH_JSON == "/settings.json"

(* handleAuthenticatedHTTPRequest: whether connection->respond is called,  *)
(* which both the POST and the GET of the settings path do.                *)
Responds(operation, path) ==
    \/ operation = "POST" /\ path = SETTINGS_PATH_JSON
    \/ operation = "GET" /\ path = SETTINGS_PATH_JSON

(* handleAuthenticatedHTTPRequest: the value returned.  The branch of the  *)
(* POST returns true; the branch of the GET falls through to the           *)
(* `return false` at the end.                                              *)
handleAuthenticatedHTTPRequestReturns(operation, path) ==
    IF operation = "POST" /\ path = SETTINGS_PATH_JSON THEN TRUE
    ELSE FALSE

(* handleAuthenticatedHTTPRequest, the GET: the object sent.               *)
handleGet(s) ==
    Obj3("descriptions", ListV(descriptionArray),
         "values", MapV(responseObjectForType(s, "", TRUE)),
         "locked", MapV(s.masterConfig))

-----------------------------------------------------------------------------
(* The documents the model starts from and the requests it receives.       *)

(* A permission record of a settings document.                             *)
Record(id, caps) ==
    [k \in {"permissions_id"} \cup {PermissionKey(c) : c \in Capabilities} |->
        IF k = "permissions_id" THEN StrV(id)
        ELSE BoolV(\E c \in caps : PermissionKey(c) = k)]

GroupRecord(id, gid, rank, caps) ==
    ("group_id" :> StrV(gid)) @@ ("rank" :> NumV(rank)) @@ Record(id, caps)

RankRecord(id, rank, caps) == ("rank" :> NumV(rank)) @@ Record(id, caps)

Security(m) == ("security" :> MapV(m))

(* The user settings file at start: none, or one of these documents.       *)
UserFiles ==
    { Absent,
      MapV(Security(
          Obj2("standard_permissions",
               ListV(<< MapV(Record("anonymous", {"connect"})),
                        MapV(Record("friends", {})),
                        MapV(Record("localhost", {"connect", "locks"})),
                        MapV(Record("logged-in", {"connect"})) >>),
               "group_permissions",
               ListV(<< MapV(GroupRecord("pilots", "u1", 0, {"connect"})) >>)))),
      MapV(Security(
          Obj2("http_password", StrV("H1"),
               "group_forbiddens",
               ListV(<< MapV(Record("crew", {"rez"})) >>)))) }

(* The master document: empty, or one that sets two values.                *)
MasterFiles ==
    { EmptyMap,
      Obj2("security", MapV("restricted_access" :> BoolV(TRUE)),
           "entity_server_settings",
           MapV("persistFilePath" :> StrV("/home"))) }

(* The objects of the write POSTs: those that change the group lists, and  *)
(* the others.                                                             *)
GroupObjects ==
    { Security("group_permissions" :>
          ListV(<< MapV(RankRecord("Pilots", 1, {"connect"})) >>)),
      Security("group_forbiddens" :>
          ListV(<< MapV(GroupRecord("crew", "u2", 0, {"locks"})) >>)) }

PostedObjects ==
    GroupObjects \cup
    { Security("standard_permissions" :>
          ListV(<< MapV(Record("localhost", {})),
                   MapV(Record("Localhost", {"connect"})) >>)),
      Security("permissions" :>
          ListV(<< MapV(Record("Bob", {"rez"})),
                   MapV(Record("alice", {"connect"})) >>)),
      Obj2("security", MapV("restricted_access" :> BoolV(FALSE)),
           "bogus", MapV("motd" :> StrV("home"))),
      "entity_server_settings" :> MapV("persistFilePath" :> StrV("/lobby")),
      "entity_server_settings" :> MapV("persistFilePath" :> StrV("")),
      Obj2("security", MapV("http_password" :> StrV("H2")),
           "audio_env", MapV("attenuation" :> StrV("42"))),
      "audio_env" :> MapV("bogus" :> StrV("home")),
      "motd" :> StrV("home") }

(* The directory service: the name and the ID a group is registered under. *)
RegisteredName(name) ==
    CASE toLower(name) = "pilots" -> "Pilots"
      [] toLower(name) = "crew" -> "Crew"
      [] OTHER -> name

RegisteredID(name) ==
    CASE toLower(name) = "pilots" -> "u1"
      [] toLower(name) = "crew" -> "u2"
      [] OTHER -> NullUuid

RankNames == << "owner", "admin", "member", "wizard" >>

(* The rank lists of a directory reply: the first n ranks, or one renamed. *)
RankReplies ==
    { [i \in 1..n |-> [name |-> RankNames[i], order |-> i - 1]] : n \in 0..MaxRank }
    \cup { << [name |-> "member", order |-> 0] >> }

BootTime == StaleDataAge + 1

-----------------------------------------------------------------------------
(* The state machine.                                                      *)

Apply(s) ==
    /\ userConfig' = s.userConfig
    /\ masterConfig' = s.masterConfig
    /\ mergedConfig' = s.mergedConfig
    /\ diskConfig' = s.diskConfig
    /\ diskWritable' = s.diskWritable
    /\ standardAgentPermissions' = s.standardAgentPermissions
    /\ agentPermissions' = s.agentPermissions
    /\ groupPermissions' = s.groupPermissions
    /\ groupForbiddens' = s.groupForbiddens
    /\ groupPermissionsByUUID' = s.groupPermissionsByUUID
    /\ groupForbiddensByUUID' = s.groupForbiddensByUUID
    /\ groupIDs' = s.groupIDs
    /\ groupNames' = s.groupNames
    /\ groupRanks' = s.groupRanks
    /\ groupRanksLastFetched' = s.groupRanksLastFetched
    /\ pending' = s.pending
    /\ hasAuthEndpoint' = s.hasAuthEndpoint
    /\ now' = s.now
    /\ hashSeed' = s.hashSeed
    /\ storedVersion' = s.storedVersion
    /\ descriptionVersion' = s.descriptionVersion
    /\ trace' = s.trace

(* The state a handler starts from: its own event list is empty.           *)
Here == [St EXCEPT !.trace = << >>]

(* A process that has just been constructed: nothing loaded, nothing in    *)
(* flight.                                                                 *)
NewProcess(s, seed) ==
    [s EXCEPT !.userConfig = EmptyMap, !.mergedConfig = EmptyMap,
              !.standardAgentPermissions = EmptyPermissionsMap,
              !.agentPermissions = EmptyPermissionsMap,
              !.groupPermissions = EmptyPermissionsMap,
              !.groupForbiddens = EmptyPermissionsMap,
              !.groupPermissionsByUUID = EmptyIndex,
              !.groupForbiddensByUUID = EmptyIndex,
              !.groupIDs = EmptyMap, !.groupNames = EmptyMap,
              !.groupRanks = EmptyMap, !.groupRanksLastFetched = EmptyMap,
              !.pending = EmptyMap, !.hashSeed = seed, !.trace = << >>]

CurrentVersion == 15

InitProcess ==
    /\ userConfig = EmptyMap
    /\ mergedConfig = EmptyMap
    /\ diskWritable = TRUE
    /\ standardAgentPermissions = EmptyPermissionsMap
    /\ agentPermissions = EmptyPermissionsMap
    /\ groupPermissions = EmptyPermissionsMap
    /\ groupForbiddens = EmptyPermissionsMap
    /\ groupPermissionsByUUID = EmptyIndex
    /\ groupForbiddensByUUID = EmptyIndex
    /\ groupIDs = EmptyMap
    /\ groupNames = EmptyMap
    /\ groupRanks = EmptyMap
    /\ groupRanksLastFetched = EmptyMap
    /\ pending = EmptyMap
    /\ now = BootTime
    /\ hashSeed \in {0, 1}
    /\ descriptionVersion = CurrentVersion
    /\ pc = "start"
    /\ trace = << >>
    /\ last = [op |-> "none"]
    /\ used = [posts |-> 0, ticks |-> 0, crashes |-> 0]

(* A server that reaches the directory service.                            *)
Init ==
    /\ InitProcess
    /\ masterConfig = EmptyMap
    /\ diskConfig \in UserFiles
    /\ hasAuthEndpoint = TRUE
    /\ storedVersion = CurrentVersion
    /\ opA = << >>
    /\ boot = [diskConfig |-> diskConfig, storedVersion |-> storedVersion]

(* A server without directory service, under any master document.          *)
InitPost ==
    /\ InitProcess
    /\ masterConfig \in MasterFiles
    /\ diskConfig \in UserFiles
    /\ hasAuthEndpoint = FALSE
    /\ storedVersion = CurrentVersion
    /\ opA = << >>
    /\ boot = [diskConfig |-> diskConfig, storedVersion |-> storedVersion]

Serving == pc \in {"serving", "restarting"}

(* No request may be sent when one kind of request is at its bound.        *)
CanSend == \A r \in DOMAIN pending : pending[r] < MaxPending

(* The process starts: setupConfigMap.                                     *)
Setup ==
    /\ pc = "start"
    /\ Apply(setupConfigMap(Here))
    /\ pc' = "serving"
    /\ last' = [op |-> "setup"]
    /\ UNCHANGED << used, boot, opA >>

(* A write POST of the settings; `before` keeps the user document the POST *)
(* found.                                                                  *)
Post(postedObject) ==
    /\ Serving
    /\ CanSend
    /\ used.posts < MaxPosts
    /\ LET respond(r) ==
               /\ Apply(r.s)
               /\ pc' = IF r.restart THEN "restarting" ELSE pc
               /\ last' = [op |-> "post", postedObject |-> postedObject,
                           restart |-> r.restart, before |-> userConfig,
                           responded |-> Responds("POST", SETTINGS_PATH_JSON),
                           handled |-> handleAuthenticatedHTTPRequestReturns(
                                           "POST", SETTINGS_PATH_JSON)]
       IN  respond(handlePost(Here, postedObject))
    /\ used' = [used EXCEPT !.posts = @ + 1]
    /\ UNCHANGED << boot, opA >>

(* A read of the settings: the full authenticated read (the type is       *)
(* ignored), or the public read for one assignment type.                   *)
Get(typeValue, isAuthenticated) ==
    /\ Serving
    /\ Apply(Here)
    /\ last' = [op |-> "get", typeValue |-> typeValue,
                isAuthenticated |-> isAuthenticated,
                response |-> IF isAuthenticated THEN handleGet(Here)
                             ELSE responseObjectForType(Here, typeValue, FALSE),
                responded |-> IF isAuthenticated
                              THEN Responds("GET", SETTINGS_PATH_JSON)
                              ELSE typeValue # "",
                handled |-> IF isAuthenticated
                            THEN handleAuthenticatedHTTPRequestReturns(
                                     "GET", SETTINGS_PATH_JSON)
                            ELSE typeValue # ""]
    /\ UNCHANGED << pc, used, boot, opA >>

(* The restart a POST scheduled: a new process over the same files.        *)
Restart ==
    /\ pc = "restarting"
    /\ \E seed \in {0, 1} : Apply(NewProcess(St, seed))
    /\ pc' = "start"
    /\ last' = [op |-> "restart"]
    /\ UNCHANGED << used, boot, opA >>

(* The directory answers a request for a group's ID.                       *)
GroupIDReply(groupName, status) ==
    /\ Serving
    /\ pendingCount(St, << "id", groupName >>) > 0
    /\ Apply([apiGetGroupIDJSONCallback(Here, status,
                  RegisteredName(groupName), RegisteredID(groupName))
                 EXCEPT !.pending[<< "id", groupName >>] = @ - 1])
    /\ last' = [op |-> "group-id", status |-> status, groupName |-> groupName]
    /\ UNCHANGED << pc, used, boot, opA >>

(* apiGetGroupIDErrorCallback                                              *)
GroupIDError(groupName) ==
    /\ Serving
    /\ pendingCount(St, << "id", groupName >>) > 0
    /\ Apply([Here EXCEPT !.pending[<< "id", groupName >>] = @ - 1])
    /\ last' = [op |-> "group-id-error"]
    /\ UNCHANGED << pc, used, boot, opA >>

(* The directory answers a request for a group's ranks.                    *)
GroupRanksReply(gid, status, ranks) ==
    /\ Serving
    /\ pendingCount(St, << "ranks", gid >>) > 0
    /\ Apply([apiGetGroupRanksJSONCallback(Here, status, gid, ranks)
                 EXCEPT !.pending[<< "ranks", gid >>] = @ - 1])
    /\ last' = [op |-> "group-ranks", status |-> status, gid |-> gid,
                ranks |-> ranks]
    /\ UNCHANGED << pc, used, boot, opA >>

(* apiGetGroupRanksErrorCallback                                           *)
GroupRanksError(gid) ==
    /\ Serving
    /\ pendingCount(St, << "ranks", gid >>) > 0
    /\ Apply([Here EXCEPT !.pending[<< "ranks", gid >>] = @ - 1])
    /\ last' = [op |-> "group-ranks-error"]
    /\ UNCHANGED << pc, used, boot, opA >>

(* The request of a reply that was not a success, or the empty tuple.      *)
FailedRequest(l) ==
    IF l.op = "group-id" /\ l.status # "success"
    THEN << "id", l.groupName >>
    ELSE IF l.op = "group-ranks" /\ l.status # "success"
         THEN << "ranks", l.gid >>
         ELSE << >>

(* The periodic call of apiRefreshGroupInformation; `after` is the request *)
(* that had just failed, if any.                                           *)
Refresh ==
    /\ Serving
    /\ CanSend
    /\ Apply(apiRefreshGroupInformation(Here))
    /\ last' = [op |-> "refresh", after |-> FailedRequest(last)]
    /\ UNCHANGED << pc, used, boot, opA >>

(* Time passes.                                                            *)
Tick ==
    /\ Serving
    /\ used.ticks < MaxTicks
    /\ Apply([Here EXCEPT !.now = @ + StaleDataAge + 1])
    /\ last' = [op |-> "tick"]
    /\ used' = [used EXCEPT !.ticks = @ + 1]
    /\ UNCHANGED << pc, boot, opA >>

AllNames == {"pilots", "crew"}

Next ==
    \/ Setup
    \/ \E postedObject \in GroupObjects : Post(postedObject)
    \/ \E groupName \in AllNames, status \in {"success", "fail"} :
          GroupIDReply(groupName, status)
    \/ \E groupName \in AllNames : GroupIDError(groupName)
    \/ \E gid \in Uuids, status \in {"success", "fail"}, ranks \in RankReplies :
          GroupRanksReply(gid, status, ranks)
    \/ \E gid \in Uuids : GroupRanksError(gid)
    \/ Refresh
    \/ Tick

Spec == Init /\ [][Next]_vars

NextPost ==
    \/ Setup
    \/ \E postedObject \in PostedObjects : Post(postedObject)
    \/ \E typeValue \in {"", "0", "6"} : Get(typeValue, FALSE)
    \/ Get("", TRUE)
    \/ Restart

PostSpec == InitPost /\ [][NextPost]_vars

-----------------------------------------------------------------------------
(* setupConfigMap step by step, over a settings file of an older version,  *)
(* with a process that may stop between two steps and start again.         *)

OldVersions == {0, 10, 11, 12, 14}

OldFiles ==
    { Absent,
      MapV(Obj2("security",
                MapV(Obj3("allowed_users", ListV(<< StrV("bob") >>),
                          "allowed_editors",
                          ListV(<< StrV("alice"), StrV("bob") >>),
                          "http_password", StrV("secret"))),
                "entity_server_settings",
                MapV("persistFilename" :> StrV("home")))),
      MapV(Security(Obj3("http_password", StrV("secret"),
                         "editors_are_rezzers", BoolV(TRUE),
                         "allowed_editors", ListV(<< StrV("Bob") >>)))) }

(* The master documents of a server with legacy settings: those above, and *)
(* one that still names the entity file by its old key.                    *)
OldMasterFiles ==
    MasterFiles \cup
    { "entity_server_settings" :> MapV("persistFilename" :> StrV("legacy")) }

InitMig ==
    /\ InitProcess
    /\ masterConfig \in OldMasterFiles
    /\ diskConfig \in OldFiles
    /\ hasAuthEndpoint = FALSE
    /\ storedVersion \in OldVersions
    /\ opA = << >>
    /\ boot = [diskConfig |-> diskConfig, storedVersion |-> storedVersion]

(* The steps of the re-mapping, in the order of the code, and the version  *)
(* each one is for.                                                        *)
Steps == << "v10", "v11", "v12", "v14", "v15" >>

StepVersion(step) ==
    CASE step = "v10" -> 10
      [] step = "v11" -> 11
      [] step = "v12" -> 12
      [] step = "v14" -> 14
      [] step = "v15" -> 15

StepAfter(step) ==
    CASE step = "v10" -> "v11"
      [] step = "v11" -> "v12"
      [] step = "v12" -> "v14"
      [] step = "v14" -> "v15"
      [] step = "v15" -> "unpack"

InSetup == pc \in {"v10", "v11", "v12", "v14", "v15", "unpack"}

(* setupConfigMap, line 101: the documents are loaded.                     *)
Load ==
    /\ pc = "start"
    /\ Apply(loadMasterAndUserConfig(Here))
    /\ pc' = IF storedVersion # descriptionVersion THEN "v10" ELSE "unpack"
    /\ last' = [op |-> "load"]
    /\ UNCHANGED << used, boot, opA >>

(* One step of the re-mapping.                                             *)
Migrate ==
    /\ InSetup
    /\ pc # "unpack"
    /\ Apply(migrationStep(Here, StepVersion(pc)))
    /\ pc' = StepAfter(pc)
    /\ last' = [op |-> "migrate", step |-> pc]
    /\ UNCHANGED << used, boot, opA >>

(* The end of setupConfigMap.                                              *)
Finish ==
    /\ pc = "unpack"
    /\ Apply(finishSetup(Here))
    /\ pc' = "serving"
    /\ last' = [op |-> "finish"]
    /\ UNCHANGED << used, boot, opA >>

(* The process stops during setupConfigMap and is started again.           *)
Crash ==
    /\ InSetup
    /\ used.crashes < MaxCrashes
    /\ \E seed \in {0, 1} : Apply(NewProcess(St, seed))
    /\ pc' = "start"
    /\ last' = [op |-> "crash", at |-> pc]
    /\ used' = [used EXCEPT !.crashes = @ + 1]
    /\ UNCHANGED << boot, opA >>

NextMig == Load \/ Migrate \/ Finish \/ Crash

MigSpec == InitMig /\ [][NextMig]_vars

-----------------------------------------------------------------------------
(* A server whose group lists get rows of one group with and without its   *)
(* ID, as after a row was added to a table whose other rows are resolved,  *)
(* and a row with an ID the directory does not give the group.             *)

MixedObjects ==
    { Security("group_permissions" :>
          ListV(<< MapV(RankRecord("Pilots", 1, {"connect"})) >>)),
      Security("group_permissions" :>
          ListV(<< MapV(GroupRecord("pilots", "u2", 1, {"connect"})) >>)),
      Security("group_permissions" :>
          ListV(<< MapV(GroupRecord("pilots", "u1", 1, {"connect"})),
                   MapV(RankRecord("pilots", 0, {"rez"})) >>)),
      Security("group_forbiddens" :>
          ListV(<< MapV(GroupRecord("crew", "u2", 0, {"locks"})),
                   MapV(RankRecord("crew", 1, {"rez"})) >>)) }

(* A write POST that may arrive while directory requests are in flight.    *)
PostInFlight(postedObject) ==
    /\ Serving
    /\ \A r \in DOMAIN pending : pending[r] <= MaxPending
    /\ used.posts < MaxPosts
    /\ LET respond(r) ==
               /\ Apply(r.s)
               /\ pc' = IF r.restart THEN "restarting" ELSE pc
               /\ last' = [op |-> "post", postedObject |-> postedObject,
                           restart |-> r.restart, before |-> userConfig,
                           responded |-> Responds("POST", SETTINGS_PATH_JSON),
                           handled |-> handleAuthenticatedHTTPRequestReturns(
                                           "POST", SETTINGS_PATH_JSON)]
       IN  respond(handlePost(Here, postedObject))
    /\ used' = [used EXCEPT !.posts = @ + 1]
    /\ UNCHANGED << boot, opA >>

(* Rank lists of a reply that leave out an order.                          *)
SparseReplies == { << [name |-> "admin", order |-> 1] >> }

NextMixed ==
    \/ Setup
    \/ \E postedObject \in MixedObjects : PostInFlight(postedObject)
    \/ \E groupName \in AllNames, status \in {"success", "fail"} :
          GroupIDReply(groupName, status)
    \/ \E gid \in Uuids, status \in {"success", "fail"},
             ranks \in RankReplies \cup SparseReplies :
          GroupRanksReply(gid, status, ranks)

MixedSpec == Init /\ [][NextMixed]_vars

-----------------------------------------------------------------------------
(* A server whose group list is replaced while directory requests are in   *)
(* flight: a group is added without its ID, then the list is sent again,   *)
(* or with another group in its place, or empty.                           *)

ReplacingObjects ==
    { Security("group_permissions" :>
          ListV(<< MapV(RankRecord("Pilots", 1, {"connect"})) >>)),
      Security("group_permissions" :>
          ListV(<< MapV(GroupRecord("crew", "u2", 0, {"locks"})) >>)),
      Security("group_permissions" :> ListV(<< >>)) }

NextReplaced ==
    \/ Setup
    \/ \E postedObject \in ReplacingObjects : PostInFlight(postedObject)
    \/ \E groupName \in AllNames : GroupIDReply(groupName, "success")
    \/ \E gid \in Uuids, ranks \in RankReplies \cup SparseReplies :
          GroupRanksReply(gid, "success", ranks)

ReplacedSpec == Init /\ [][NextReplaced]_vars

-----------------------------------------------------------------------------
(* A server that is sent, while directory requests are in flight, settings *)
(* that need a restart, with and without permission records beside them.   *)

DeferredObjects ==
    { Obj2("security",
           MapV("permissions" :> ListV(<< MapV(Record("alice", {"connect"})) >>)),
           "entity_server_settings",
           MapV("persistFilePath" :> StrV("/lobby"))),
      "entity_server_settings" :> MapV("persistFilePath" :> StrV("/lobby")),
      Security("group_permissions" :>
          ListV(<< MapV(RankRecord("Pilots", 1, {"connect"})) >>)) }

NextDeferred ==
    \/ Setup
    \/ \E postedObject \in DeferredObjects : PostInFlight(postedObject)
    \/ \E groupName \in AllNames : GroupIDReply(groupName, "success")
    \/ \E gid \in Uuids, ranks \in RankReplies :
          GroupRanksReply(gid, "success", ranks)
    \/ Restart

DeferredSpec == Init /\ [][NextDeferred]_vars

-----------------------------------------------------------------------------
(* A server that is sent settings of the schema group without a name: the  *)
(* message of the day and the table of paths.                              *)

RootFiles ==
    { Absent,
      MapV(Obj2("motd", StrV("lobby"),
                "paths", MapV("/home" :> MapV("viewpoint" :> StrV("/home"))))) }

RootObjects ==
    { "motd" :> StrV("home"),
      "motd" :> BoolV(TRUE),
      "motd" :> ListV(<< StrV("home") >>),
      "paths" :> MapV("home" :> MapV("viewpoint" :> StrV("lobby"))),
      "paths" :> MapV("/home" :> MapV("viewpoint" :> StrV(""))),
      Obj2("security", MapV("restricted_access" :> BoolV(TRUE)),
           "entity_server_settings", MapV("persistFilePath" :> StrV(""))) }

InitRoot ==
    /\ InitProcess
    /\ masterConfig \in MasterFiles
    /\ diskConfig \in RootFiles
    /\ hasAuthEndpoint = FALSE
    /\ storedVersion = CurrentVersion
    /\ opA = << >>
    /\ boot = [diskConfig |-> diskConfig, storedVersion |-> storedVersion]

NextRoot ==
    \/ Setup
    \/ \E postedObject \in RootObjects : Post(postedObject)
    \/ Restart

RootSpec == InitRoot /\ [][NextRoot]_vars

-----------------------------------------------------------------------------
(* A server that is sent permission lists with several records of one key. *)

DuplicateObjects ==
    { Security("standard_permissions" :>
          ListV(<< MapV(Record("localhost", {"locks"})),
                   MapV(Record("anonymous", {"connect"})),
                   MapV(Record("Localhost", {"connect"})),
                   MapV(Record("localhost", {"rez"})) >>)),
      Security("permissions" :>
          ListV(<< MapV(Record("Bob", {"rez"})),
                   MapV(Record("bob", {"connect"})) >>)),
      Security("group_permissions" :>
          ListV(<< MapV(GroupRecord("pilots", "u1", 1, {"connect"})),
                   MapV(GroupRecord("Pilots", "u1", 1, {"rez"})) >>)),
      Security("group_permissions" :>
          ListV(<< MapV(RankRecord("crew", 1, {"connect"})),
                   MapV(RankRecord("crew", 1, {"rez"})) >>)),
      Security("group_forbiddens" :>
          ListV(<< MapV(GroupRecord("crew", "u2", 0, {"locks"})),
                   MapV(GroupRecord("crew", "u2", 0, {"rez"})) >>)) }

NextDuplicate ==
    \/ Setup
    \/ \E postedObject \in DuplicateObjects : Post(postedObject)

DuplicateSpec == InitPost /\ [][NextDuplicate]_vars

-----------------------------------------------------------------------------
(* setupConfigMap step by step under every pair of the version stored by   *)
(* the last run and the version of the settings description.               *)

StoredVersions == {0, 10, 11, 12, 13, 14, 15}
SchemaVersions == {12, 13, 14, 15}

InitVer ==
    /\ userConfig = EmptyMap
    /\ mergedConfig = EmptyMap
    /\ diskWritable = TRUE
    /\ standardAgentPermissions = EmptyPermissionsMap
    /\ agentPermissions = EmptyPermissionsMap
    /\ groupPermissions = EmptyPermissionsMap
    /\ groupForbiddens = EmptyPermissionsMap
    /\ groupPermissionsByUUID = EmptyIndex
    /\ groupForbiddensByUUID = EmptyIndex
    /\ groupIDs = EmptyMap
    /\ groupNames = EmptyMap
    /\ groupRanks = EmptyMap
    /\ groupRanksLastFetched = EmptyMap
    /\ pending = EmptyMap
    /\ now = BootTime
    /\ hashSeed \in {0, 1}
    /\ descriptionVersion \in SchemaVersions
    /\ pc = "start"
    /\ trace = << >>
    /\ last = [op |-> "none"]
    /\ used = [posts |-> 0, ticks |-> 0, crashes |-> 0]
    /\ masterConfig \in MasterFiles
    /\ diskConfig \in OldFiles
    /\ hasAuthEndpoint = FALSE
    /\ storedVersion \in StoredVersions
    /\ opA = << >>
    /\ boot = [diskConfig |-> diskConfig, storedVersion |-> storedVersion]

NextVer == Load \/ Migrate \/ Finish

VerSpec == InitVer /\ [][NextVer]_vars

-----------------------------------------------------------------------------
(* A server over a settings file that may hold keys the description does   *)
(* not know, on a disk that may stop taking writes.                        *)

(* Settings files with a root key without description: a scalar, an empty  *)
(* map, a map with content; the last also has an unknown key in a group.   *)
StrayFiles ==
    { MapV(Obj2("bogus", StrV("home"),
                "security", MapV("restricted_access" :> BoolV(TRUE)))),
      MapV("bogus" :> MapV(EmptyMap)),
      MapV(Obj2("bogus", MapV("motd" :> StrV("lobby")),
                "audio_env", MapV(Obj2("bogus", NumV(1),
                                       "attenuation", NumV(1))))) }

(* POSTs with a key without description, next to keys that have one.       *)
StrayObjects ==
    { Obj2("security", MapV("restricted_access" :> BoolV(FALSE)),
           "bogus", MapV("motd" :> StrV("home"))),
      "audio_env" :> MapV(Obj2("bogus", StrV("home"),
                               "attenuation", StrV("42"))),
      "bogus" :> StrV("lobby"),
      Security("permissions" :>
          ListV(<< MapV(Record("Bob", {"rez"})),
                   MapV(Record("bob", {"connect"})) >>)) }

InitFile ==
    /\ InitProcess
    /\ masterConfig \in MasterFiles
    /\ diskConfig \in UserFiles \cup StrayFiles
    /\ hasAuthEndpoint = FALSE
    /\ storedVersion \in {14, CurrentVersion}
    /\ opA = << >>
    /\ boot = [diskConfig |-> diskConfig, storedVersion |-> storedVersion]

(* persistToFile, line 1082: from now on the file cannot be opened for     *)
(* writing.                                                                *)
DiskFails ==
    /\ diskWritable
    /\ Apply([Here EXCEPT !.diskWritable = FALSE])
    /\ last' = [op |-> "disk-fails"]
    /\ UNCHANGED << pc, used, boot, opA >>

NextFile ==
    \/ Setup
    \/ \E postedObject \in StrayObjects : Post(postedObject)
    \/ DiskFails

FileSpec == InitFile /\ [][NextFile]_vars

-----------------------------------------------------------------------------
(* The permission algebra on two entries.                                  *)

InitOr ==
    /\ InitProcess
    /\ masterConfig = EmptyMap
    /\ diskConfig = Absent
    /\ hasAuthEndpoint = FALSE
    /\ storedVersion = CurrentVersion
    /\ opA \in { << entrySetGroupID(NewNodePermissions(<< "pilots", r >>), gid),
                   NewNodePermissions(<< "crew", 0 >>) >> :
                 r \in {0, MaxRank}, gid \in {NullUuid, "u1"} }
    /\ boot = [diskConfig |-> diskConfig, storedVersion |-> storedVersion]

(* NodePermissions::set on one of the two entries.                         *)
SetBit(i, p) ==
    /\ opA' = [opA EXCEPT ![i] = setPermission(@, p)]
    /\ last' = [op |-> "set"]
    /\ UNCHANGED << userConfig, masterConfig, mergedConfig, diskConfig,
                    diskWritable, standardAgentPermissions, agentPermissions,
                    groupPermissions, groupForbiddens, groupPermissionsByUUID,
                    groupForbiddensByUUID, groupIDs, groupNames, groupRanks,
                    groupRanksLastFetched, pending, hasAuthEndpoint, now,
                    hashSeed, storedVersion, descriptionVersion, pc, trace,
                    used, boot >>

(* lhs |= rhs                                                              *)
OrAssign ==
    /\ opA' = [opA EXCEPT ![1] = orAssign(@, opA[2])]
    /\ last' = [op |-> "or"]
    /\ UNCHANGED << userConfig, masterConfig, mergedConfig, diskConfig,
                    diskWritable, standardAgentPermissions, agentPermissions,
                    groupPermissions, groupForbiddens, groupPermissionsByUUID,
                    groupForbiddensByUUID, groupIDs, groupNames, groupRanks,
                    groupRanksLastFetched, pending, hasAuthEndpoint, now,
                    hashSeed, storedVersion, descriptionVersion, pc, trace,
                    used, boot >>

NextOr ==
    \/ \E i \in {1, 2}, p \in Capabilities : SetBit(i, p)
    \/ OrAssign

OrSpec == InitOr /\ [][NextOr]_vars

-----------------------------------------------------------------------------
(* The properties.                                                         *)

(* Every permission entry over the six capabilities.                       *)
PermissionSets ==
    { [NewNodePermissions(<< "bob", 0 >>) EXCEPT !.permissions = P] :
        P \in SUBSET Capabilities }

(* C8: the union of capabilities (operator|=) is commutative and           *)
(* associative on the bitmask, and an entry merged with itself keeps its   *)
(* capabilities, id, rank and group ID, for all permission sets over the   *)
(* six capabilities.                                                       *)
C8_UnionIsCommutativeAssociativeIdempotent ==
    LET a == opA[1]
        b == opA[2]
    IN  /\ orAssign(a, b).permissions = orAssign(b, a).permissions
        /\ \A c \in PermissionSets :
              orAssign(orAssign(a, b), c).permissions
                  = orAssign(a, orAssign(b, c)).permissions
        /\ orAssign(a, a) = a
        /\ orAssign(a, b).id = a.id
        /\ orAssign(a, b).rank = a.rank
        /\ orAssign(a, b).groupID = a.groupID

(* A union was taken of two entries that differ, the left one a group      *)
(* entry of a non-zero rank.                                               *)
C8_Witness ==
    /\ last.op = "or"
    /\ opA[2].permissions # {}
    /\ opA[1].permissions # opA[2].permissions
    /\ opA[1].groupIDSet
    /\ opA[1].rank > 0

(* The state a ranks reply leaves for ensurePermissionsForGroupRanks: the  *)
(* current state, with the first n rank names known for group gid.         *)
WithRanks(gid, n) ==
    IF n = 0 THEN St
    ELSE [St EXCEPT !.groupRanks =
             MapSet(@, gid, [i \in 1..n |-> RankNames[i]])]

EnsureInputs == {St} \cup {WithRanks(gid, n) : gid \in Uuids, n \in 1..MaxRank}

(* C9: ensurePermissionsForGroupRanks is idempotent: called twice in       *)
(* succession, the second call returns false and leaves the group and the  *)
(* group-forbidden set as the first call left them.                        *)
C9_EnsureIsIdempotent ==
    \A s \in EnsureInputs :
        LET first == ensurePermissionsForGroupRanks(s)
            second == ensurePermissionsForGroupRanks(first.s)
        IN  /\ ~second.changed
            /\ second.s.groupPermissions = first.s.groupPermissions
            /\ second.s.groupForbiddens = first.s.groupForbiddens

(* A ranks reply has made the call synthesize an entry, in a state where   *)
(* a further rank would make it synthesize another.                        *)
C9_Witness ==
    /\ last.op = "group-ranks"
    /\ last.status = "success"
    /\ \E k \in DOMAIN groupPermissions :
          k[2] > 0 /\ isGroup(groupPermissions[k])
    /\ \E s \in EnsureInputs : ensurePermissionsForGroupRanks(s).changed

(* The entries of a set that belong to a name.                             *)
KeysOf(m, groupName) == {k \in DOMAIN m : k[1] = toLower(groupName)}

CoveredBy(before, after, s, gids) ==
    /\ \A gid \in gids :
          \A r \in 0..(Len(rankNamesOf(s, gid)) - 1) :
              mapContains(after, << groupNameOf(s, gid), r >>)
    /\ \A k \in DOMAIN after \ DOMAIN before : after[k].permissions = {}
    /\ \A k \in DOMAIN before :
          k \in DOMAIN after /\ after[k].permissions = before[k].permissions
    /\ \A gid \in gids :
          (/\ Len(rankNamesOf(s, gid)) = 2
           /\ KeysOf(before, groupNameOf(s, gid))
                  \subseteq {Key(groupNameOf(s, gid), 0),
                             Key(groupNameOf(s, gid), 1)})
          => KeysOf(after, groupNameOf(s, gid))
                 = {Key(groupNameOf(s, gid), 0), Key(groupNameOf(s, gid), 1)}

QueryNames == {"localhost", "anonymous", "Pilots", "pilots", "crew", "bob", "bogus"}

QueryIDs == Uuids \cup {NullUuid}

(* A lookup by group ID finds an entry when the index holds the ID and     *)
(* rank, and the set holds the key of the entry the index names.           *)
FoundByID(s, index, m, gid, rank) ==
    /\ << gid, rank >> \in DOMAIN index
    /\ getKey(deref(s, index[<< gid, rank >>])) \in DOMAIN m

IsEntry(e) ==
    /\ DOMAIN e = {"id", "rank", "groupID", "groupIDSet", "permissions"}
    /\ e.permissions \subseteq AllBits

(* C5: each lookup (getStandardPermissionsForName, getPermissionsForName,  *)
(* getPermissionsForGroup and getForbiddensForGroup, by name or by group   *)
(* ID) returns an entry, in every reachable state, and the entry denies    *)
(* every capability when no entry is found for the key asked for.          *)
C5_LookupsDenyAllWhenMissing ==
    /\ \A name \in QueryNames, rank \in 0..MaxRank :
          LET std == getStandardPermissionsForName(St, << name, rank >>)
              usr == getPermissionsForName(St, name)
              grp == getPermissionsForGroup(St, name, rank)
              frb == getForbiddensForGroup(St, name, rank)
          IN  /\ IsEntry(std) /\ IsEntry(usr) /\ IsEntry(grp) /\ IsEntry(frb)
              /\ ~mapContains(standardAgentPermissions, << name, rank >>)
                     => std.permissions = {}
              /\ ~mapContains(agentPermissions, << name, 0 >>)
                     => usr.permissions = {}
              /\ ~mapContains(groupPermissions, << name, rank >>)
                     => grp.permissions = {}
              /\ ~mapContains(groupForbiddens, << name, rank >>)
                     => frb.permissions = {}
    /\ \A gid \in QueryIDs, rank \in 0..MaxRank :
          LET grp == getPermissionsForGroupID(St, gid, rank)
              frb == getForbiddensForGroupID(St, gid, rank)
          IN  /\ IsEntry(grp) /\ IsEntry(frb)
              /\ ~FoundByID(St, groupPermissionsByUUID, groupPermissions,
                            gid, rank)
                     => grp.permissions = {}
              /\ ~FoundByID(St, groupForbiddensByUUID, groupForbiddens,
                            gid, rank)
                     => frb.permissions = {}

(* The sets hold entries with capabilities, and the index of the group set *)
(* names an entry an unpack has dropped from the set.                      *)
C5_Witness ==
    /\ pc = "serving"
    /\ \E k \in DOMAIN groupPermissions : groupPermissions[k].permissions # {}
    /\ \E k \in DOMAIN groupPermissionsByUUID :
          /\ ~FoundByID(St, groupPermissionsByUUID, groupPermissions, k[1], k[2])
          /\ deref(St, groupPermissionsByUUID[k]).permissions # {}

StandardNames ==
    {standardNameLocalhost, standardNameAnonymous, standardNameLoggedIn,
     standardNameFriends}

InTrace(e) == \E i \in 1..Len(trace) : trace[i] = e

(* The capabilities the records for localhost in the standard list of the  *)
(* user document grant, and whether there is such a record.                *)
ListedLocalhost(s) ==
    LET list == toList(valueForKeyPath(s.userConfig,
                                       AGENT_STANDARD_PERMISSIONS_KEYPATH))
    IN  {NodePermissionsFromMap(toMap(list[i])).permissions :
            i \in {j \in 1..Len(list) :
                     NodePermissionsFromMap(toMap(list[j])).id = "localhost"}}

(* The claim C1 as it was made: after any unpackPermissions the standard   *)
(* set holds the four standard names and localhost holds every capability. *)
C1_LocalhostAlwaysHoldsEverything ==
    /\ InTrace("unpack") =>
          /\ StandardNames \subseteq DOMAIN standardAgentPermissions
          /\ Capabilities
                 \subseteq standardAgentPermissions[standardNameLocalhost].permissions
    /\ Serving =>
          LET std == unpackPermissions(Here).standardAgentPermissions
          IN  /\ StandardNames \subseteq DOMAIN std
              /\ Capabilities \subseteq std[standardNameLocalhost].permissions

(* C1, amended: after any unpackPermissions the standard set holds the     *)
(* four standard names localhost, anonymous, logged-in and friends;        *)
(* localhost holds every capability when the standard list of the user     *)
(* document had no record for it, and the union of the capabilities of its *)
(* records when it had.                                                    *)
C1_StandardNamesAfterUnpack ==
    /\ InTrace("unpack") =>
          StandardNames \subseteq DOMAIN standardAgentPermissions
    /\ Serving =>
          LET std == unpackPermissions(Here).standardAgentPermissions
          IN  /\ StandardNames \subseteq DOMAIN std
              /\ ListedLocalhost(St) = {} =>
                    Capabilities \subseteq std[standardNameLocalhost].permissions
              /\ ListedLocalhost(St) # {} =>
                    std[standardNameLocalhost].permissions
                        = UNION ListedLocalhost(St)

(* A POST has listed localhost twice, with one capability in all, and the  *)
(* unpack it ran has left localhost that capability, next to three other   *)
(* standard names.                                                         *)
C1_Witness ==
    /\ last.op = "post"
    /\ InTrace("unpack")
    /\ StandardNames \subseteq DOMAIN standardAgentPermissions
    /\ standardAgentPermissions[standardNameLocalhost].permissions = {"connect"}
    /\ Cardinality(ListedLocalhost(St)) = 1

SameEntries(before, after) ==
    /\ DOMAIN after = DOMAIN before
    /\ \A k \in DOMAIN before :
          /\ k \in DOMAIN after
          /\ after[k].id = before[k].id
          /\ after[k].rank = before[k].rank
          /\ after[k].groupID = before[k].groupID
          /\ after[k].permissions = before[k].permissions

(* C2: pack followed by unpack is a fixed point: in every reachable state  *)
(* of a serving process, packPermissions and then unpackPermissions leave  *)
(* four sets with the same keys and, per key, the same id, rank, group ID  *)
(* and capability bitmask as before the pack.                              *)
C2_PackThenUnpackIsFixedPoint ==
    pc = "serving" =>
        LET after == unpackPermissions(packPermissions(Here))
        IN  /\ SameEntries(standardAgentPermissions,
                           after.standardAgentPermissions)
            /\ SameEntries(agentPermissions, after.agentPermissions)
            /\ SameEntries(groupPermissions, after.groupPermissions)
            /\ SameEntries(groupForbiddens, after.groupForbiddens)

(* Whether the posted object holds a setting the description knows under a *)
(* root key other than "security".                                         *)
AppliesOutsideSecurity(postedObject) ==
    \E rootKey \in DOMAIN postedObject \ {"security"} :
        LET named == {i \in 1..Len(descriptionArray) :
                         MapValue(descriptionArray[i].m, "name") = StrV(rootKey)}
            nameless == {i \in 1..Len(descriptionArray) :
                            "name" \notin DOMAIN descriptionArray[i].m}
            knows(i, settingKey) ==
                \E j \in 1..Len(descriptionArray[i].m["settings"].l) :
                    descriptionArray[i].m["settings"].l[j].m["name"]
                        = StrV(settingKey)
        IN  IF named # {}
            THEN \E i \in named :
                    \E settingKey \in DOMAIN toMap(postedObject[rootKey]) :
                        knows(i, settingKey)
            ELSE \E i \in nameless : knows(i, rootKey)

(* C4: for a write POST the restart flag is true exactly when a setting    *)
(* the description knows was applied under a root key other than           *)
(* "security"; when it is true a restart is scheduled and unpackPermissions*)
(* is not run, and when it is false unpackPermissions is run at once and   *)
(* no restart is scheduled.                                                *)
C4_RestartIffAppliedOutsideSecurity ==
    last.op = "post" =>
        /\ last.restart = AppliesOutsideSecurity(last.postedObject)
        /\ last.restart =>
              /\ InTrace("restart-scheduled")
              /\ ~InTrace("unpack")
              /\ pc = "restarting"
        /\ ~last.restart =>
              /\ InTrace("unpack")
              /\ ~InTrace("restart-scheduled")

(* A POST that sets a security setting and a setting of another group has  *)
(* scheduled a restart.                                                    *)
C4_Witness ==
    /\ last.op = "post"
    /\ last.restart
    /\ "security" \in DOMAIN last.postedObject
    /\ "audio_env" \in DOMAIN last.postedObject
    /\ pc = "restarting"

(* C6: after every completed operation that changes the user document the  *)
(* merged view equals the user document laid over the master document.     *)
C6_MergedIsUserOverMaster ==
    pc # "start" => mergedConfig = mergeMaps(masterConfig, userConfig)

(* setupConfigMap run once, without interruption, by a process with the   *)
(* iteration order of the current one, over the files the first process    *)
(* found.                                                                  *)
Uninterrupted ==
    setupConfigMap([NewProcess(St, hashSeed) EXCEPT
                       !.diskConfig = boot.diskConfig,
                       !.storedVersion = boot.storedVersion])

(* C3: every step of the re-mapping is idempotent under a stop and a new   *)
(* start: when the process stops after a step has persisted its result and *)
(* before the version is recorded, and setupConfigMap runs again, the      *)
(* final user document and permission sets equal those of one              *)
(* uninterrupted run.                                                      *)
C3_RemappingSurvivesRestart ==
    pc = "serving" =>
        /\ userConfig = Uninterrupted.userConfig
        /\ standardAgentPermissions = Uninterrupted.standardAgentPermissions
        /\ agentPermissions = Uninterrupted.agentPermissions
        /\ groupPermissions = Uninterrupted.groupPermissions
        /\ groupForbiddens = Uninterrupted.groupForbiddens

(* The legacy allow-list of the settings file the first process found.     *)
LegacyAllowList ==
    toList(valueForKeyPath(toMap(boot.diskConfig),
                           ALLOWED_USERS_SETTINGS_KEYPATH))

PasswordObjects ==
    {Security("http_password" :> StrV(x)) : x \in {"secret", "H1"}}

ClearedSettings(postedObject, before) ==
    {gk \in UNION {{<< g, k >> : k \in DOMAIN toMap(postedObject[g])} :
                      g \in DOMAIN postedObject} :
        LET description ==
                settingDescriptionFromGroup(groupNamed(descriptionArray, gk[1]),
                                            gk[2])
        IN  /\ postedObject[gk[1]].m[gk[2]] = StrV("")
            /\ DOMAIN description # {}
            /\ ~toBool(MapValue(description, "value-hidden"))
            /\ gk[2] \in DOMAIN toMap(MapValue(before, gk[1]))}

(* What the full read returns for a setting.                               *)
ReadValue(gk) ==
    MapValue(toMap(MapValue(responseObjectForType(St, "", TRUE), gk[1])), gk[2])

SchemaDefault(gk) ==
    LET description ==
            settingDescriptionFromGroup(groupNamed(descriptionArray, gk[1]),
                                        gk[2])
    IN  IF "default" \in DOMAIN description THEN description["default"]
        ELSE StrV("")

SameDocuments(failed, written) ==
    /\ failed.userConfig = written.userConfig
    /\ failed.mergedConfig = written.mergedConfig

(* The list the user document or the merged view holds for a set has one   *)
(* record per entry of the set.                                            *)
ListsHoldSets(m) ==
    LET holds(path, set) ==
            Len(toList(valueForKeyPath(m, path))) = Cardinality(DOMAIN set)
    IN  /\ holds(AGENT_STANDARD_PERMISSIONS_KEYPATH, standardAgentPermissions)
        /\ holds(AGENT_PERMISSIONS_KEYPATH, agentPermissions)
        /\ holds(GROUP_PERMISSIONS_KEYPATH, groupPermissions)
        /\ holds(GROUP_FORBIDDENS_KEYPATH, groupForbiddens)

(* C14: when the write of the settings file fails during a persist (in     *)
(* packPermissions, in a step of the re-mapping, in validateDescriptorsMap *)
(* or in a write POST), the user document and the merged view in memory    *)
(* hold after the operation what they hold when the write succeeds: the    *)
(* change that was being persisted, not the older content of the file.     *)
C14_FailedPersistKeepsMutation ==
    /\ Serving =>
          LET failing == [Here EXCEPT !.diskWritable = FALSE]
              working == [Here EXCEPT !.diskWritable = TRUE]
          IN  /\ SameDocuments(packPermissions(failing),
                               packPermissions(working))
              /\ SameDocuments(validateDescriptorsMap(failing),
                               validateDescriptorsMap(working))
              /\ SameDocuments(migratePassword(failing),
                               migratePassword(working))
              /\ \A postedObject \in StrayObjects :
                    SameDocuments(handlePost(failing, postedObject).s,
                                  handlePost(working, postedObject).s)
    /\ (last.op \in {"setup", "post"} /\ InTrace("pack")
            /\ InTrace("persist-failed")) =>
          ListsHoldSets(userConfig) /\ ListsHoldSets(mergedConfig)

(* setupConfigMap has packed the permission sets while the file could not  *)
(* be written, over an older file.                                         *)
C14_Witness ==
    /\ last.op = "setup"
    /\ InTrace("pack")
    /\ InTrace("persist-failed")
    /\ IsMap(diskConfig)
    /\ ~diskWritable

(* The root keys of a posted object that are neither a group nor a root    *)
(* setting of the description.                                             *)
UnknownRoots(postedObject) ==
    {rootKey \in DOMAIN postedObject :
        /\ DOMAIN groupNamed(descriptionArray, rootKey) = {}
        /\ DOMAIN rootDescription(descriptionArray, rootKey) = {}}

(* The settings << group, name >> a posted object names under a group of   *)
(* the description.                                                        *)
GroupSettings(postedObject) ==
    UNION {{<< g, k >> : k \in DOMAIN toMap(postedObject[g])} :
              g \in {x \in DOMAIN postedObject :
                        DOMAIN groupNamed(descriptionArray, x) # {}}}

DescriptionOf(gk) ==
    settingDescriptionFromGroup(groupNamed(descriptionArray, gk[1]), gk[2])

(* What a setting holds when the posted value alone is applied to it.      *)
AppliedAlone(postedObject, gk) ==
    LET alone == updateSetting(gk[2], postedObject[gk[1]].m[gk[2]], EmptyMap,
                               DescriptionOf(gk))
    IN  IF gk[2] \in DOMAIN alone THEN alone[gk[2]] ELSE Absent

(* C16: a key of a posted object without description is skipped: the user  *)
(* document holds at that key after the POST what it held before (nothing, *)
(* a scalar, an empty map or a map with content), the key does not make    *)
(* the POST require a restart, and the keys of the object that have a      *)
(* description are applied.                                                *)
C16_UnknownKeyIsSkipped ==
    (last.op = "post" /\ diskWritable) =>
        /\ \A rootKey \in UnknownRoots(last.postedObject) :
              valueForKeyPath(userConfig, << rootKey >>)
                  = valueForKeyPath(last.before, << rootKey >>)
        /\ \A gk \in GroupSettings(last.postedObject) :
              IF DOMAIN DescriptionOf(gk) = {}
              THEN valueForKeyPath(userConfig, gk)
                       = valueForKeyPath(last.before, gk)
              ELSE last.postedObject[gk[1]].m[gk[2]].t \in {"bool", "str"} =>
                       valueForKeyPath(userConfig, gk)
                           = AppliedAlone(last.postedObject, gk)
        /\ last.restart = AppliesOutsideSecurity(last.postedObject)

(* The part of C16 about keys inside a group and about the restart flag.   *)
C16_UnknownSettingOfGroupIsSkipped ==
    (last.op = "post" /\ diskWritable) =>
        /\ \A rootKey \in UnknownRoots(last.postedObject) :
              LET held == valueForKeyPath(last.before, << rootKey >>)
              IN  valueForKeyPath(userConfig, << rootKey >>)
                      = IF DOMAIN toMap(held) = {} THEN Absent ELSE held
        /\ \A gk \in GroupSettings(last.postedObject) :
              IF DOMAIN DescriptionOf(gk) = {}
              THEN valueForKeyPath(userConfig, gk)
                       = valueForKeyPath(last.before, gk)
              ELSE last.postedObject[gk[1]].m[gk[2]].t \in {"bool", "str"} =>
                       valueForKeyPath(userConfig, gk)
                           = AppliedAlone(last.postedObject, gk)
        /\ last.restart = AppliesOutsideSecurity(last.postedObject)

(* A POST has named a root key without description where the user document *)
(* held a scalar, next to a setting it applied.                            *)
C16_Witness ==
    /\ last.op = "post"
    /\ diskWritable
    /\ "bogus" \in UnknownRoots(last.postedObject)
    /\ valueForKeyPath(last.before, << "bogus" >>) = StrV("home")
    /\ valueForKeyPath(userConfig, RESTRICTED_ACCESS_SETTINGS_KEYPATH)
           = BoolV(FALSE)
    /\ valueForKeyPath(last.before, RESTRICTED_ACCESS_SETTINGS_KEYPATH)
           = BoolV(TRUE)

(* Whether a response holds the setting `name` of the group `groupKey`     *)
(* (of the root when the group has no name).                               *)
Returned(response, groupKey, name) ==
    IF groupKey = "" THEN name \in DOMAIN response
    ELSE /\ groupKey \in DOMAIN response
         /\ name \in DOMAIN toMap(response[groupKey])

(* The assignment types a setting is for: its own, or its group's when it  *)
(* declares none.                                                          *)
TypesOf(groupObject, settingObject) ==
    LET own == toList(MapValue(settingObject, "assignment-types"))
        types == IF own = << >>
                 THEN toList(MapValue(groupObject, "assignment-types"))
                 ELSE own
    IN  {types[i] : i \in 1..Len(types)}

(* C17: the unauthenticated read for assignment type t returns a setting   *)
(* exactly when the description does not mark it value-hidden and t is one *)
(* of the setting's assignment types (its group's when it declares none);  *)
(* the read without a type returns no setting.                             *)
C17_PublicReadReturnsSettingsOfType ==
    (last.op = "get" /\ ~last.isAuthenticated) =>
        /\ last.typeValue = "" => last.response = EmptyMap
        /\ last.typeValue # "" =>
              \A g \in 1..Len(descriptionArray) :
                LET groupObject == toMap(descriptionArray[g])
                    settings == toList(MapValue(groupObject, "settings"))
                IN  \A i \in 1..Len(settings) :
                      Returned(last.response,
                               toString(MapValue(groupObject, "name")),
                               toString(MapValue(toMap(settings[i]), "name")))
                      <=> /\ MapValue(toMap(settings[i]), "value-hidden")
                                # BoolV(TRUE)
                          /\ NumV(stringToNumber(last.typeValue))
                                \in TypesOf(groupObject, toMap(settings[i]))

(* The read for type 6 has returned the entity server's file path and the  *)
(* wizard setting (its own types), and neither the hidden token of the     *)
(* same group nor a setting of type 0.                                     *)
C17_Witness ==
    /\ last.op = "get"
    /\ ~last.isAuthenticated
    /\ last.typeValue = "6"
    /\ Returned(last.response, "entity_server_settings", "persistFilePath")
    /\ Returned(last.response, "audio_env", "wizard")
    /\ ~Returned(last.response, "entity_server_settings", "token")
    /\ ~Returned(last.response, "audio_env", "attenuation")

(* The positions of an event in the trace of the last handler.             *)
Positions(e) == {i \in 1..Len(trace) : trace[i] = e}

PersistAttempts == Positions("persist") \cup Positions("persist-failed")

(* C18: a write POST applies the document to the user map, then attempts   *)
(* to persist, then sends the success response, then schedules the         *)
(* restart when one is required: the response never precedes the persist   *)
(* attempt and the restart is never scheduled before the response.         *)
C18_PostAppliesPersistsRespondsThenRestarts ==
    last.op = "post" =>
        /\ Cardinality(Positions("apply")) = 1
        /\ Cardinality(Positions("respond")) = 1
        /\ \A a \in Positions("apply"), r \in Positions("respond") :
              /\ \E p \in PersistAttempts : a < p /\ p < r
              /\ \A p \in PersistAttempts : a < p
        /\ IF last.restart
           THEN /\ Cardinality(Positions("restart-scheduled")) = 1
                /\ \A r \in Positions("respond"),
                      q \in Positions("restart-scheduled") : r < q
           ELSE Positions("restart-scheduled") = {}

(* A POST that requires a restart has gone through its four events with a  *)
(* persist attempt that failed.                                            *)
C18_Witness ==
    /\ last.op = "post"
    /\ last.restart
    /\ trace = << "apply", "merge", "persist-failed", "respond",
                  "restart-scheduled" >>

(* A list in the order of permissionVariantLessThan: by permissions_id,    *)
(* and by rank_name among records of one permissions_id.                   *)
Ordered(l) ==
    \A i, j \in 1..Len(l) : i < j => ~permissionVariantLessThan(l[j], l[i])

PermissionLists ==
    {AGENT_STANDARD_PERMISSIONS_KEYPATH, AGENT_PERMISSIONS_KEYPATH,
     GROUP_PERMISSIONS_KEYPATH, GROUP_FORBIDDENS_KEYPATH}

(* C19: after every persist each of the four permission lists of the       *)
(* document written (standard, named users, group, group-forbidden) is in  *)
(* ascending order of permissions_id and, among records of one             *)
(* permissions_id, of rank_name.                                           *)
C19_PersistedListsAreOrdered ==
    InTrace("persist") =>
        \A path \in PermissionLists :
            Ordered(toList(valueForKeyPath(diskConfig.m, path)))

(* What sortPermissions does order: the standard and the named list.       *)
C19_StandardAndNamedListsAreOrdered ==
    InTrace("persist") =>
        \A path \in {AGENT_STANDARD_PERMISSIONS_KEYPATH,
                      AGENT_PERMISSIONS_KEYPATH} :
            Ordered(toList(valueForKeyPath(diskConfig.m, path)))

(* A persist has written a group list of two records or more.              *)
C19_Witness ==
    /\ InTrace("persist")
    /\ Len(toList(valueForKeyPath(diskConfig.m, GROUP_PERMISSIONS_KEYPATH))) >= 2

(* The process as it started, over the files it found.                     *)
Started ==
    [NewProcess(St, hashSeed) EXCEPT !.diskConfig = boot.diskConfig,
                                     !.storedVersion = boot.storedVersion,
                                     !.trace = << >>]

(* What a run of setupConfigMap leaves: the documents, the version and the *)
(* permission maps.                                                        *)
Outcome(s) ==
    << s.userConfig, s.mergedConfig, s.diskConfig, s.storedVersion,
       s.standardAgentPermissions, s.agentPermissions, s.groupPermissions,
       s.groupForbiddens >>

(* The re-mappings of the steps whose version is above `stored`, in the    *)
(* order of the code.                                                      *)
RECURSIVE StepsAbove(_, _, _)
StepsAbove(s, stored, steps) ==
    IF steps = << >> THEN s
    ELSE StepsAbove(IF stored < StepVersion(Head(steps))
                    THEN migrationStepUngated(s, StepVersion(Head(steps)))
                    ELSE s,
                    stored, Tail(steps))

(* A step whose version is not above the stored version changes nothing.   *)
StepNotAboveStoredChangesNothing ==
    (pc \in {"v10", "v11", "v12", "v14", "v15"}
        /\ ~(storedVersion < StepVersion(pc))) =>
        migrationStep(Here, StepVersion(pc)) = Here

(* C20: in setupConfigMap the step of each version v of 1.0, 1.1, 1.2, 1.4 *)
(* and 1.5 runs exactly when the stored version read at startup is below   *)
(* v, whatever the stored and the schema version are: the run leaves what  *)
(* the re-mappings of exactly those steps leave; and a step whose version  *)
(* is not above the stored version never changes the config.               *)
C20_StepRunsWhenStoredVersionIsBelow ==
    /\ (pc = "serving" /\ last.op = "finish") =>
           Outcome(St) =
               Outcome(finishSetup(StepsAbove(loadMasterAndUserConfig(Started),
                                              boot.storedVersion, Steps)))
    /\ StepNotAboveStoredChangesNothing

(* C20, amended: the step of version v runs exactly when the stored        *)
(* version differs from the schema version and is below v; a step whose    *)
(* version is not above the stored version never changes the config.       *)
C20_StepRunsWhenVersionsDifferAndStoredIsBelow ==
    /\ (pc = "serving" /\ last.op = "finish") =>
           Outcome(St) =
               Outcome(finishSetup(
                   IF boot.storedVersion = descriptionVersion
                   THEN loadMasterAndUserConfig(Started)
                   ELSE StepsAbove(loadMasterAndUserConfig(Started),
                                   boot.storedVersion, Steps)))
    /\ StepNotAboveStoredChangesNothing

(* A run from stored version 1.2 to schema version 1.5 over a file with an *)
(* allow-list has ended: the step of 1.4 has run (bob may connect), the    *)
(* step of 1.5 has run (the descriptors are there), and the step of 1.0    *)
(* has not (no restricted_access).                                         *)
C20_Witness ==
    /\ pc = "serving"
    /\ last.op = "finish"
    /\ boot.storedVersion = 12
    /\ descriptionVersion = 15
    /\ mapContains(agentPermissions, << "bob", 0 >>)
    /\ valueForKeyPath(userConfig, << "descriptors", "weekday_hours" >>) # Absent
    /\ valueForKeyPath(userConfig, RESTRICTED_ACCESS_SETTINGS_KEYPATH) = Absent

StepStates == {"v10", "v11", "v12", "v14", "v15"}

(* C21: in every run of setupConfigMap the steps execute in ascending      *)
(* order of their versions; a step that changes the user map persists it   *)
(* before the next step starts; unpackPermissions runs once, after the     *)
(* last step and in no step; and the stored version is written after that  *)
(* unpack only: it stays what it was while a step or the unpack is still   *)
(* to come.                                                                *)
C21_StepsInOrderPersistThenUnpackThenVersion ==
    /\ (last.op = "migrate" /\ pc \in StepStates) =>
           StepVersion(last.step) < StepVersion(pc)
    /\ pc \in StepStates =>
           LET persisted(r) ==
                   r.userConfig # userConfig =>
                       /\ \E i \in 1..Len(r.trace) : r.trace[i] = "persist"
                       /\ r.diskConfig = MapV(r.userConfig)
           IN  persisted(migrationStep(Here, StepVersion(pc)))
    /\ last.op = "migrate" =>
           /\ Positions("unpack") = {}
           /\ userConfig # EmptyMap => diskConfig = MapV(userConfig)
    /\ last.op = "finish" =>
           /\ Cardinality(Positions("unpack")) = 1
           /\ storedVersion = descriptionVersion
    /\ (pc \in StepStates \/ pc = "unpack") =>
           storedVersion = boot.storedVersion

(* The step of 1.1 has renamed the key, persisted and handed over to the   *)
(* step of 1.2, the stored version still being the old one.                *)
C21_Witness ==
    /\ last.op = "migrate"
    /\ last.step = "v11"
    /\ pc = "v12"
    /\ InTrace("persist")
    /\ valueForKeyPath(diskConfig.m, << "entity_server_settings", "persistFilePath" >>)
           = StrV("home")
    /\ storedVersion = 10
    /\ descriptionVersion = 15

(* The entries of the four permission mappings.                            *)
AllEntries ==
    {standardAgentPermissions[k] : k \in DOMAIN standardAgentPermissions}
        \cup {agentPermissions[k] : k \in DOMAIN agentPermissions}
        \cup {groupPermissions[k] : k \in DOMAIN groupPermissions}
        \cup {groupForbiddens[k] : k \in DOMAIN groupForbiddens}

(* The entries the two by-UUID indexes refer to.                           *)
IndexedEntries ==
    {deref(St, groupPermissionsByUUID[k]) : k \in DOMAIN groupPermissionsByUUID}
        \cup {deref(St, groupForbiddensByUUID[k]) :
                  k \in DOMAIN groupForbiddensByUUID}

(* C22: in every reachable state every entry of the four permission        *)
(* mappings with isGroup true has a group ID that is not null, and every   *)
(* entry the by-UUID indexes (group and group-forbidden) refer to is a     *)
(* group entry.                                                            *)
C22_GroupEntriesHaveIDsAndIndexesHoldGroups ==
    /\ \A e \in AllEntries : isGroup(e) => e.groupID # NullUuid
    /\ \A e \in IndexedEntries : isGroup(e)

(* The first half of C22 alone.                                            *)
C22_GroupEntriesHaveIDs ==
    \A e \in AllEntries : isGroup(e) => e.groupID # NullUuid

(* An index refers to a group entry of a mapping.                          *)
C22_Witness ==
    /\ pc = "serving"
    /\ \E k \in DOMAIN groupPermissionsByUUID :
          /\ groupPermissionsByUUID[k].live
          /\ isGroup(deref(St, groupPermissionsByUUID[k]))
          /\ deref(St, groupPermissionsByUUID[k]).groupID = k[1]

(* The key unpackPermissions gives a record of the list at `path`.         *)
RecordKey(path, record) ==
    IF path \in {AGENT_STANDARD_PERMISSIONS_KEYPATH, AGENT_PERMISSIONS_KEYPATH}
    THEN Key(NodePermissionsFromMap(toMap(record)).id, 0)
    ELSE getKey(NodePermissionsFromMap(toMap(record)))

(* The positions of the records of one key in a list.                      *)
RecordsOf(path, list, key) ==
    {i \in 1..Len(list) : RecordKey(path, list[i]) = key}

(* The mapping unpackPermissions fills from the list at `path`.            *)
MappingOf(path) ==
    CASE path = AGENT_STANDARD_PERMISSIONS_KEYPATH -> standardAgentPermissions
      [] path = AGENT_PERMISSIONS_KEYPATH -> agentPermissions
      [] path = GROUP_PERMISSIONS_KEYPATH -> groupPermissions
      [] path = GROUP_FORBIDDENS_KEYPATH -> groupForbiddens

(* What the claim says of the list a POST gave at `path`, the POST having  *)
(* unpacked it.                                                            *)
DuplicatesMerged(path, list) ==
    \A i \in 1..Len(list) :
        LET key == RecordKey(path, list[i])
            same == RecordsOf(path, list, key)
        IN  Cardinality(same) > 1 =>
                /\ key \in DOMAIN MappingOf(path)
                /\ MappingOf(path)[key].permissions
                       = UNION {NodePermissionsFromMap(toMap(list[j])).permissions :
                                   j \in same}
                /\ InTrace("pack")
                /\ Cardinality(RecordsOf(path,
                       toList(valueForKeyPath(userConfig, path)), key)) = 1

(* C23: when unpackPermissions meets several records of one key in the     *)
(* list of a category, the entry of that key holds the union of the        *)
(* capabilities of those records, in each of the four categories;          *)
(* packPermissions runs, and the list of the user map afterwards holds one *)
(* record for that key.                                                    *)
C23_DuplicateRecordsAreMerged ==
    (last.op = "post" /\ ~last.restart) =>
        \A path \in PermissionLists :
            DuplicatesMerged(path,
                toList(valueForKeyPath(last.postedObject, path)))

(* C23 but for its last part where the merged entry is one of a rank      *)
(* other than 0 without group ID, which toVariant writes without its rank. *)
C23_DuplicateRecordsAreMergedButForRank ==
    (last.op = "post" /\ ~last.restart) =>
        \A path \in PermissionLists :
            LET list == toList(valueForKeyPath(last.postedObject, path))
                after == toList(valueForKeyPath(userConfig, path))
            IN  \A i \in 1..Len(list) :
                  LET key == RecordKey(path, list[i])
                      same == RecordsOf(path, list, key)
                  IN  Cardinality(same) > 1 =>
                        /\ key \in DOMAIN MappingOf(path)
                        /\ MappingOf(path)[key].permissions
                             = UNION {NodePermissionsFromMap(toMap(list[j])).permissions :
                                         j \in same}
                        /\ InTrace("pack")
                        /\ (isGroup(MappingOf(path)[key]) \/ key[2] = 0) =>
                               Cardinality(RecordsOf(path, after, key)) = 1

(* A POST with three records for localhost has been unpacked.              *)
C23_Witness ==
    /\ last.op = "post"
    /\ Cardinality(RecordsOf(AGENT_STANDARD_PERMISSIONS_KEYPATH,
           toList(valueForKeyPath(last.postedObject,
                                  AGENT_STANDARD_PERMISSIONS_KEYPATH)),
           standardNameLocalhost)) = 3
    /\ standardAgentPermissions[standardNameLocalhost].permissions
           = {"locks", "connect", "rez"}
    /\ InTrace("pack")

(* Whether the last handler has run unpackPermissions on a user map this   *)
(* state still tells: a POST that needed no restart, or the first start.   *)
UnpackedKnownList ==
    \/ last.op = "post" /\ ~last.restart
    \/ last.op = "setup" /\ used.posts = 0

(* The list at `path` that this unpackPermissions found in the user map.   *)
ListUnpacked(path) ==
    IF last.op = "post"
    THEN IF valueForKeyPath(last.postedObject, path) # Absent
         THEN toList(valueForKeyPath(last.postedObject, path))
         ELSE toList(valueForKeyPath(last.before, path))
    ELSE toList(valueForKeyPath(toMap(boot.diskConfig), path))

EntriesNamed(s, groupName) ==
    {s.groupPermissions[k] : k \in {x \in DOMAIN s.groupPermissions :
        toLower(s.groupPermissions[x].id) = toLower(groupName)}}
    \cup {s.groupForbiddens[k] : k \in {x \in DOMAIN s.groupForbiddens :
        toLower(s.groupForbiddens[x].id) = toLower(groupName)}}

(* Whether a reply that binds `groupName` and `gid` finds the name bound   *)
(* to another ID, or an entry of that name that does not carry `gid`.      *)
ChangesBinding(s, groupName, gid) ==
    \/ /\ toLower(groupName) \in DOMAIN s.groupIDs
       /\ s.groupIDs[toLower(groupName)] # gid
    \/ \E e \in EntriesNamed(s, groupName) : e.groupID # gid

(* What the claim says of the state `r` a successful reply leaves.         *)
BoundEverywhere(s, r, groupName, gid) ==
    /\ toLower(groupName) \in DOMAIN r.groupIDs
    /\ r.groupIDs[toLower(groupName)] = gid
    /\ gid \in DOMAIN r.groupNames
    /\ r.groupNames[gid] = groupName
    /\ \A e \in EntriesNamed(r, groupName) : e.groupID = gid
    /\ ChangesBinding(s, groupName, gid) =>
           /\ \E i \in 1..Len(r.trace) : r.trace[i] = "pack"
           /\ pendingCount(r, << "ranks", gid >>)
                  > pendingCount(s, << "ranks", gid >>)

(* C25: after a successful reply that gives the group name n the ID u, the *)
(* two caches bind n and u and every entry named n in the group and the    *)
(* group-forbidden set carries u; and when the reply changes a binding     *)
(* (the name was bound to another ID, or an entry of that name did not     *)
(* carry u), packPermissions runs and the ranks of u are requested.        *)
C25_GroupIDReplyBindsEverywhere ==
    Serving =>
        \A groupName \in AllNames :
            pendingCount(St, << "id", groupName >>) > 0 =>
                BoundEverywhere(Here,
                    apiGetGroupIDJSONCallback(Here, "success",
                        RegisteredName(groupName), RegisteredID(groupName)),
                    RegisteredName(groupName), RegisteredID(groupName))

(* C25 where no entry of that name carries another ID before the reply.    *)
C25_GroupIDReplyBindsUnresolvedEntries ==
    Serving =>
        \A groupName \in AllNames :
            (/\ pendingCount(St, << "id", groupName >>) > 0
             /\ \A e \in EntriesNamed(St, RegisteredName(groupName)) :
                   e.groupID \in {NullUuid, RegisteredID(groupName)}
             /\ toLower(groupName) \in DOMAIN groupIDs =>
                   groupIDs[toLower(groupName)] = RegisteredID(groupName)) =>
                BoundEverywhere(Here,
                    apiGetGroupIDJSONCallback(Here, "success",
                        RegisteredName(groupName), RegisteredID(groupName)),
                    RegisteredName(groupName), RegisteredID(groupName))

(* A successful reply for pilots has arrived while the entry of pilots     *)
(* carried another ID.                                                     *)
C25_Witness ==
    /\ last.op = "group-id"
    /\ last.status = "success"
    /\ last.groupName = "pilots"
    /\ "pilots" \in DOMAIN groupIDs
    /\ groupIDs["pilots"] = "u1"
    /\ \E e \in EntriesNamed(St, "pilots") : e.groupID = "u2"

(* What the claim says of the rank-name list `names` that a reply listing  *)
(* `ranks` leaves, `old` being the list before the reply.                  *)
RanksStored(old, names, ranks) ==
    /\ \A i \in 1..Len(ranks) :
           /\ Len(names) >= ranks[i].order + 1
           /\ names[ranks[i].order + 1] = ranks[i].name
    /\ \A j \in 1..Len(names) :
           (\A i \in 1..Len(ranks) : ranks[i].order + 1 # j) =>
               names[j] = IF j <= Len(old) THEN old[j] ELSE ""

(* Every rank of every group of the two group sets has its entry and its   *)
(* place in the index by group ID.                                         *)
RanksCovered(r) ==
    /\ \A gid \in getGroupIDs(r) :
           \A rank \in 0..(Len(rankNamesOf(r, gid)) - 1) :
               /\ mapContains(r.groupPermissions,
                              Key(groupNameOf(r, gid), rank))
               /\ << gid, rank >> \in DOMAIN r.groupPermissionsByUUID
    /\ \A gid \in getBlacklistGroupIDs(r) :
           \A rank \in 0..(Len(rankNamesOf(r, gid)) - 1) :
               /\ mapContains(r.groupForbiddens,
                              Key(groupNameOf(r, gid), rank))
               /\ << gid, rank >> \in DOMAIN r.groupForbiddensByUUID

Packed(r) == \E i \in 1..Len(r.trace) : r.trace[i] = "pack"

RanksReconciled(s, r, gid, ranks) ==
    /\ RanksStored(rankNamesOf(s, gid), rankNamesOf(r, gid), ranks)
    /\ RanksCovered(r)
    /\ Packed(r) <=> \/ r.groupRanks # s.groupRanks
                     \/ r.standardAgentPermissions # s.standardAgentPermissions
                     \/ r.agentPermissions # s.agentPermissions
                     \/ r.groupPermissions # s.groupPermissions
                     \/ r.groupForbiddens # s.groupForbiddens

(* C26: after a successful ranks reply that lists (name_i, order_i) for a  *)
(* group, the rank-name list of the group is at least max(order_i)+1 long, *)
(* holds name_i at order_i and the empty string at every index that was    *)
(* never named; every rank of every group is covered; and packPermissions  *)
(* runs if and only if the rank list or the permission sets changed.       *)
C26_RanksReplyStoresNamesCoversAndPacksOnChange ==
    Serving =>
        \A gid \in Uuids :
            pendingCount(St, << "ranks", gid >>) > 0 =>
                \A ranks \in RankReplies \cup SparseReplies :
                    RanksReconciled(Here,
                        apiGetGroupRanksJSONCallback(Here, "success", gid,
                                                     ranks),
                        gid, ranks)

(* A reply that names only order 1 has been stored with the gap filled.    *)
C26_Witness ==
    /\ last.op = "group-ranks"
    /\ last.status = "success"
    /\ last.ranks \in SparseReplies
    /\ rankNamesOf(St, last.gid) = << "", "admin" >>

(* The step just taken was a directory call that failed: an error callback *)
(* or a reply whose status is not success.                                 *)
FailedDirectoryCall ==
    \/ last'.op \in {"group-id-error", "group-ranks-error"}
    \/ /\ last'.op \in {"group-id", "group-ranks"}
       /\ last'.status # "success"

(* C27: a failed directory call (an error callback, or a reply whose       *)
(* status is not success) leaves the permission sets, the caches of names  *)
(* and IDs, the rank lists and the user map as they were, runs no pack,    *)
(* and sends no response and schedules no restart.                         *)
C27_FailedDirectoryCallChangesNothing ==
    [][FailedDirectoryCall =>
          /\ UNCHANGED << standardAgentPermissions, agentPermissions,
                          groupPermissions, groupForbiddens,
                          groupPermissionsByUUID, groupForbiddensByUUID,
                          groupIDs, groupNames, groupRanks, userConfig,
                          mergedConfig, diskConfig, pc >>
          /\ trace' = << >>]_vars

(* A reply that is not a success has arrived for a group whose entry has   *)
(* no ID yet.                                                              *)
C27_Witness ==
    /\ last.op = "group-id"
    /\ last.status = "fail"
    /\ \E e \in EntriesNamed(St, last.groupName) : e.groupID = NullUuid

(* The request `req` is sent by the step: one more of it is in flight.     *)
Reissued(req) ==
    (IF req \in DOMAIN pending' THEN pending'[req] ELSE 0)
        > pendingCount(St, req)

(* A refresh follows a reply that failed for a group name that is still    *)
(* known and still without ID.                                             *)
RefreshAfterFailedID ==
    /\ last'.op = "refresh"
    /\ hasAuthEndpoint
    /\ FailedRequest(last) # << >>
    /\ FailedRequest(last)[1] = "id"
    /\ FailedRequest(last)[2] \in getAllKnownGroupNames(St)
    /\ toLower(FailedRequest(last)[2]) \notin DOMAIN groupIDs

(* A refresh follows a reply that failed for the ranks of a group.         *)
RefreshAfterFailedRanks ==
    /\ last'.op = "refresh"
    /\ hasAuthEndpoint
    /\ FailedRequest(last) # << >>
    /\ FailedRequest(last)[1] = "ranks"
    /\ FailedRequest(last)[2] \in DOMAIN groupNames

(* C28: the refresh that follows a failed directory call sends the failed  *)
(* request again: a new ID request for a name still without ID, a new      *)
(* ranks request for a group whose ranks request failed.                   *)
C28_NextRefreshRepeatsFailedRequest ==
    [][/\ RefreshAfterFailedID => Reissued(FailedRequest(last))
       /\ RefreshAfterFailedRanks => Reissued(FailedRequest(last))]_vars

(* C28 for the ID request alone.                                           *)
C28_NextRefreshRepeatsFailedIDRequest ==
    [][RefreshAfterFailedID => Reissued(FailedRequest(last))]_vars

(* C28 for the ranks request once the data is stale: more than             *)
(* StaleDataAge has passed since the failed request was sent.              *)
C28_StaleRefreshRepeatsFailedRanksRequest ==
    [][(/\ RefreshAfterFailedRanks
        /\ now - lastFetched(St, FailedRequest(last)[2]) > StaleDataAge)
          => Reissued(FailedRequest(last))]_vars

(* A refresh has followed a failed ranks reply and no ranks request for    *)
(* that group is in flight.                                                *)
C28_Witness ==
    /\ last.op = "refresh"
    /\ Len(last.after) = 2
    /\ last.after[1] = "ranks"
    /\ pendingCount(St, last.after) = 0

(* The permission sets, the caches and the user map of a state.            *)
Reconciled(s) ==
    << s.standardAgentPermissions, s.agentPermissions, s.groupPermissions,
       s.groupForbiddens, s.groupIDs, s.groupNames, s.groupRanks,
       s.userConfig >>

Fresh(s) == [s EXCEPT !.trace = << >>]

IDReply(s, groupName) ==
    apiGetGroupIDJSONCallback(Fresh(s), "success", RegisteredName(groupName),
                              RegisteredID(groupName))

RanksReply(s, gid, ranks) ==
    apiGetGroupRanksJSONCallback(Fresh(s), "success", gid, ranks)

(* C29: a successful ID or ranks reply delivered twice leaves the          *)
(* permission sets, the caches and the user map as the first delivery left *)
(* them, and the second delivery runs no pack; a reply for a group that a  *)
(* write POST has removed in between leaves them as a delivery before the  *)
(* POST would have.                                                        *)
C29_RepliesAreReconciledIdempotently ==
    Serving =>
        \A s \in {Here} :
            /\ \A groupName \in AllNames :
                   pendingCount(s, << "id", groupName >>) > 0 =>
                       \A once \in {IDReply(s, groupName)} :
                           /\ \A twice \in {IDReply(once, groupName)} :
                                  /\ Reconciled(twice) = Reconciled(once)
                                  /\ ~Packed(twice)
                           /\ \A postedObject \in ReplacingObjects :
                                  \A posted \in {handlePost(s, postedObject).s} :
                                      EntriesNamed(posted, groupName) = {} =>
                                          Reconciled(IDReply(posted, groupName))
                                              = Reconciled(handlePost(once,
                                                    postedObject).s)
            /\ \A gid \in Uuids, ranks \in RankReplies \cup SparseReplies :
                   pendingCount(s, << "ranks", gid >>) > 0 =>
                       \A once \in {RanksReply(s, gid, ranks)} :
                           /\ \A twice \in {RanksReply(once, gid, ranks)} :
                                  /\ Reconciled(twice) = Reconciled(once)
                                  /\ ~Packed(twice)
                           /\ \A postedObject \in ReplacingObjects :
                                  \A posted \in {handlePost(s, postedObject).s} :
                                      EntriesNamed(posted, groupNameOf(s, gid))
                                              = {} =>
                                          Reconciled(RanksReply(posted, gid,
                                                                ranks))
                                              = Reconciled(handlePost(once,
                                                    postedObject).s)

(* C29 for the reply delivered twice alone.                                *)
C29_SecondDeliveryChangesNothing ==
    Serving =>
        \A s \in {Here} :
            /\ \A groupName \in AllNames :
                   pendingCount(s, << "id", groupName >>) > 0 =>
                       \A once \in {IDReply(s, groupName)} :
                           \A twice \in {IDReply(once, groupName)} :
                               /\ Reconciled(twice) = Reconciled(once)
                               /\ ~Packed(twice)
            /\ \A gid \in Uuids, ranks \in RankReplies \cup SparseReplies :
                   pendingCount(s, << "ranks", gid >>) > 0 =>
                       \A once \in {RanksReply(s, gid, ranks)} :
                           \A twice \in {RanksReply(once, gid, ranks)} :
                               /\ Reconciled(twice) = Reconciled(once)
                               /\ ~Packed(twice)

(* A successful ranks reply has arrived for a group that a write POST had  *)
(* removed from the group list, and has run a pack.                        *)
C29_Witness ==
    /\ last.op = "group-ranks"
    /\ last.status = "success"
    /\ last.ranks # << >>
    /\ last.gid \in DOMAIN groupNames
    /\ EntriesNamed(St, groupNameOf(St, last.gid)) = {}
    /\ Packed(St)

(* The step for the versions below 1.4 has just run.                       *)
PermissionsStepRan ==
    /\ last.op = "migrate"
    /\ last.step = "v14"
    /\ storedVersion < 14

OnlyEditorsAreRezzers ==
    toBool(valueOrDefaultValueForKeyPath(St, EDITORS_ARE_REZZERS_KEYPATH))

(* The records of the standard and the named-user list of the user map.    *)
SynthesizedRecords ==
    LET recordsOf(list) == {toMap(list[i]) : i \in 1..Len(list)}
    IN  recordsOf(toList(valueForKeyPath(userConfig,
                             AGENT_STANDARD_PERMISSIONS_KEYPATH)))
        \cup recordsOf(toList(valueForKeyPath(userConfig,
                                  AGENT_PERMISSIONS_KEYPATH)))

Holds(record, capability) == record[PermissionKey(capability)] = BoolV(TRUE)

(* C30: after the step for the versions below 1.4, every standard and      *)
(* named-user entry it made holds both rez capabilities when "only editors *)
(* are rezzers" is unset, and holds both exactly when it holds             *)
(* adjust-locks when the flag is set; the entries are packed into the user *)
(* map (the four standard roles among them) and the in-memory sets are     *)
(* empty.                                                                  *)
C30_PermissionsStepSetsRezPacksAndClears ==
    PermissionsStepRan =>
        /\ \A record \in SynthesizedRecords :
               /\ Holds(record, "rez") = Holds(record, "rez_tmp")
               /\ Holds(record, "rez")
                      = (OnlyEditorsAreRezzers => Holds(record, "locks"))
        /\ \A name \in {"localhost", "anonymous", "logged-in", "friends"} :
               \E record \in SynthesizedRecords :
                   record["permissions_id"] = StrV(name)
        /\ Packed(St)
        /\ standardAgentPermissions = EmptyPermissionsMap
        /\ agentPermissions = EmptyPermissionsMap

(* The step has run with the flag set over a file that names an editor:    *)
(* the editor may rez and anonymous may not.                               *)
C30_Witness ==
    /\ PermissionsStepRan
    /\ OnlyEditorsAreRezzers
    /\ \E record \in SynthesizedRecords :
           /\ record["permissions_id"] = StrV("bob")
           /\ Holds(record, "locks")
           /\ Holds(record, "rez")
    /\ \E record \in SynthesizedRecords :
           /\ record["permissions_id"] = StrV("anonymous")
           /\ ~Holds(record, "rez")

(* The names of a legacy list of the settings, in lower case, as the keys  *)
(* of the entries hold them.                                               *)
LegacyNames(keyPath) ==
    LET names == toStringList(valueOrDefaultValueForKeyPath(St, keyPath))
    IN  {toLower(names[i]) : i \in 1..Len(names)}

(* The records of the named-user list of the user map.                     *)
NamedRecords ==
    LET list == toList(valueForKeyPath(userConfig, AGENT_PERMISSIONS_KEYPATH))
    IN  {toMap(list[i]) : i \in 1..Len(list)}

IsRestrictedAccess ==
    toBool(valueOrDefaultValueForKeyPath(St, RESTRICTED_ACCESS_SETTINGS_KEYPATH))

(* C31: after the step for the versions below 1.4, every name of the       *)
(* legacy allow-list has a named-user entry that holds connect, restricted *)
(* access or not, and every name of the legacy editor-list has a           *)
(* named-user entry that holds adjust-locks and that, when access is       *)
(* restricted, holds connect if and only if the name is in the allow-list. *)
C31_AllowedUsersConnectAndEditorsAdjustLocks ==
    PermissionsStepRan =>
        /\ \A name \in LegacyNames(ALLOWED_USERS_SETTINGS_KEYPATH) :
               \E record \in NamedRecords :
                   /\ record["permissions_id"] = StrV(name)
                   /\ Holds(record, "connect")
        /\ \A name \in LegacyNames(ALLOWED_EDITORS_SETTINGS_KEYPATH) :
               \E record \in NamedRecords :
                   /\ record["permissions_id"] = StrV(name)
                   /\ Holds(record, "locks")
                   /\ IsRestrictedAccess =>
                          (Holds(record, "connect") <=>
                              name \in LegacyNames(
                                           ALLOWED_USERS_SETTINGS_KEYPATH))

(* The step has run with restricted access over a file whose editors are   *)
(* alice, who is not allowed, and bob, who is.                             *)
C31_Witness ==
    /\ PermissionsStepRan
    /\ IsRestrictedAccess
    /\ LegacyNames(ALLOWED_USERS_SETTINGS_KEYPATH) = {"bob"}
    /\ LegacyNames(ALLOWED_EDITORS_SETTINGS_KEYPATH) = {"alice", "bob"}
    /\ \E record \in NamedRecords :
           /\ record["permissions_id"] = StrV("alice")
           /\ ~Holds(record, "connect")

ENTITY_FILE_NAME_KEYPATH == << "entity_server_settings", "persistFilename" >>
ENTITY_FILE_PATH_KEYPATH == << "entity_server_settings", "persistFilePath" >>

(* What the claim says of the state `r` the step for the versions below    *)
(* 1.1 leaves when it found the legacy value `name`.                       *)
FilenameRenamed(r, name) ==
    /\ valueForKeyPath(r.userConfig, ENTITY_FILE_PATH_KEYPATH)
           = StrV(toString(name))
    /\ valueForKeyPath(r.mergedConfig, ENTITY_FILE_PATH_KEYPATH)
           = StrV(toString(name))
    /\ valueForKeyPath(r.userConfig, ENTITY_FILE_NAME_KEYPATH) = Absent
    /\ valueForKeyPath(r.mergedConfig, ENTITY_FILE_NAME_KEYPATH) = Absent

(* The step for the versions below 1.1 is about to run and a legacy value  *)
(* exists.                                                                 *)
FilenameStepDue ==
    /\ pc = "v11"
    /\ storedVersion < 11
    /\ valueForKeyPath(mergedConfig, ENTITY_FILE_NAME_KEYPATH) # Absent
    /\ canConvertString(valueForKeyPath(mergedConfig,
                                        ENTITY_FILE_NAME_KEYPATH))

(* C32: when the stored version is below 1.1 and a legacy                  *)
(* entity_server_settings.persistFilename exists, after the step the value *)
(* is at entity_server_settings.persistFilePath and a read of              *)
(* entity_server_settings.persistFilename finds nothing, whether the       *)
(* legacy value came from the user or from the master document.            *)
C32_LegacyFilenameIsRenamedAndRemoved ==
    FilenameStepDue =>
        FilenameRenamed(migrationStep(Here, 11),
            valueForKeyPath(mergedConfig, ENTITY_FILE_NAME_KEYPATH))

(* C32 for a legacy value that the master document does not hold.          *)
C32_LegacyFilenameOfUserDocumentIsRenamedAndRemoved ==
    (/\ FilenameStepDue
     /\ valueForKeyPath(masterConfig, ENTITY_FILE_NAME_KEYPATH) = Absent) =>
        FilenameRenamed(migrationStep(Here, 11),
            valueForKeyPath(mergedConfig, ENTITY_FILE_NAME_KEYPATH))

(* The step has run over a master document that holds the legacy key: the  *)
(* value is at the new key of the user document and the old key is still   *)
(* read.                                                                   *)
C32_Witness ==
    /\ last.op = "migrate"
    /\ last.step = "v11"
    /\ storedVersion < 11
    /\ valueForKeyPath(masterConfig, ENTITY_FILE_NAME_KEYPATH) = StrV("legacy")
    /\ valueForKeyPath(userConfig, ENTITY_FILE_PATH_KEYPATH) = StrV("legacy")
    /\ valueForKeyPath(mergedConfig, ENTITY_FILE_NAME_KEYPATH) = StrV("legacy")

(* The value is an empty map, or a map that holds one at some depth.       *)
RECURSIVE HoldsEmptyMap(_)
HoldsEmptyMap(v) ==
    /\ IsMap(v)
    /\ \/ DOMAIN v.m = {}
       \/ \E k \in DOMAIN v.m : HoldsEmptyMap(v.m[k])

(* C33: after an update document has been applied, no key the update went  *)
(* through (a root key of the document, or the key of an object below it)  *)
(* is left in the user map with an empty map as its value.                 *)
C33_EmptyGroupsDoNotPersist ==
    Serving =>
        \A postedObject \in RootObjects \cup StrayObjects :
            \A applied \in {recurseJSONObjectAndOverwriteSettings(Here,
                                 postedObject).s.userConfig} :
                \A rootKey \in DOMAIN postedObject :
                    rootKey \in DOMAIN applied =>
                        ~HoldsEmptyMap(applied[rootKey])

(* The POST has cleared the only viewpoint of the only path: the path and  *)
(* the table of paths, which the user map held before, are gone.           *)
C33_Witness ==
    /\ last.op = "post"
    /\ "paths" \in DOMAIN last.postedObject
    /\ "paths" \in DOMAIN last.before
    /\ "paths" \notin DOMAIN userConfig

(* The update documents that give the root setting motd a non-empty        *)
(* string, a boolean or an array.                                          *)
RootValueObjects ==
    {o \in RootObjects : DOMAIN o = {"motd"}}

(* C38: a root-level setting (described in a schema group without a name)  *)
(* that is updated with a non-empty string, a boolean or an array is in    *)
(* the user map with that value when                                       *)
(* recurseJSONObjectAndOverwriteSettings returns.                          *)
C38_RootSettingIsStored ==
    Serving =>
        \A postedObject \in RootValueObjects :
            \A applied \in {recurseJSONObjectAndOverwriteSettings(Here,
                                 postedObject).s.userConfig} :
                /\ "motd" \in DOMAIN applied
                /\ applied["motd"] = postedObject["motd"]

(* A POST of a message of the day has been applied, and the user map holds *)
(* none.                                                                   *)
C38_Witness ==
    /\ last.op = "post"
    /\ last.postedObject \in RootValueObjects
    /\ "motd" \notin DOMAIN userConfig

(* The value of a setting by the layers: the user map, else the master     *)
(* map, else the default of the description, else the empty string.        *)
Layered(groupKey, settingObject) ==
    LET name == toString(MapValue(settingObject, "name"))
        path == IF groupKey = "" THEN << name >> ELSE << groupKey, name >>
        user == valueForKeyPath(userConfig, path)
        master == valueForKeyPath(masterConfig, path)
    IN  IF user \notin {Absent, NullV} THEN user
        ELSE IF master \notin {Absent, NullV} THEN master
        ELSE IF "default" \in DOMAIN settingObject
        THEN settingObject["default"] ELSE StrV("")

ReturnedValue(response, groupKey, name) ==
    IF groupKey = "" THEN response[name] ELSE toMap(response[groupKey])[name]

(* What the claim says of the values of an authenticated read.             *)
ValuesAreLayered(values) ==
    \A g \in 1..Len(descriptionArray) :
        LET groupObject == toMap(descriptionArray[g])
            groupKey == toString(MapValue(groupObject, "name"))
            settings == toList(MapValue(groupObject, "settings"))
        IN  \A i \in 1..Len(settings) :
                LET name == toString(MapValue(toMap(settings[i]), "name"))
                IN  IF MapValue(toMap(settings[i]), "value-hidden") = BoolV(TRUE)
                    THEN ~Returned(values, groupKey, name)
                    ELSE /\ Returned(values, groupKey, name)
                         /\ ReturnedValue(values, groupKey, name)
                                = Layered(groupKey, toMap(settings[i]))

(* C34: the authenticated read returns, for every setting of the           *)
(* description that is not hidden and whatever its assignment types, the   *)
(* value of the user map, else that of the master map, else the default of *)
(* the description, else the empty string.                                 *)
C34_ReadResolvesUserThenMasterThenDefault ==
    (last.op = "get" /\ last.isAuthenticated) =>
        ValuesAreLayered(toMap(last.response["values"]))

(* C34 for the reads of a state whose merged map is the merge of the user  *)
(* and the master map.                                                     *)
C34_ReadOfMergedMapsResolvesUserThenMasterThenDefault ==
    (/\ last.op = "get"
     /\ last.isAuthenticated
     /\ mergedConfig = mergeMasterAndUserConfigs(St).mergedConfig) =>
        ValuesAreLayered(toMap(last.response["values"]))

(* An authenticated read has returned the file path a POST had set, under  *)
(* a master document that sets another.                                    *)
C34_Witness ==
    /\ last.op = "get"
    /\ last.isAuthenticated
    /\ valueForKeyPath(userConfig, ENTITY_FILE_PATH_KEYPATH) = StrV("/lobby")
    /\ valueForKeyPath(masterConfig, ENTITY_FILE_PATH_KEYPATH) = StrV("/home")
    /\ ReturnedValue(toMap(last.response["values"]), "entity_server_settings",
                     "persistFilePath") = StrV("/lobby")

(* What a permission record says: whose it is, the rank and the            *)
(* capabilities, without what packPermissions adds to it.                  *)
AsPosted(record) ==
    LET read == NodePermissionsFromMap(record)
    IN  [id |-> read.id, rank |-> read.rank, permissions |-> read.permissions]

(* The records of one permission list of a document.                       *)
RecordsAsPosted(config, keyPath) ==
    LET list == toList(valueForKeyPath(config, keyPath))
    IN  {AsPosted(toMap(list[i])) : i \in 1..Len(list)}

DirectoryCallback(l) == l.op \in {"group-id", "group-ranks"}

(* The permission lists a POST carried.                                    *)
PostedLists(postedObject) ==
    IF "security" \notin DOMAIN postedObject THEN {}
    ELSE {keyPath \in PermissionLists :
             keyPath[2] \in DOMAIN toMap(postedObject["security"])}

(* C35: a directory callback that arrives after a POST that scheduled a    *)
(* restart, and before the restart, leaves in the user map every record of *)
(* the permission lists the POST carried.                                  *)
C35_CallbackKeepsPostedRecords ==
    [][(/\ pc = "restarting"
        /\ last.op = "post"
        /\ last.restart
        /\ DirectoryCallback(last')) =>
          \A keyPath \in PostedLists(last.postedObject) :
              RecordsAsPosted(userConfig, keyPath)
                  \subseteq RecordsAsPosted(userConfig', keyPath)]_vars

(* A reply with the ID of a group has packed the sets between a POST that  *)
(* scheduled a restart and the restart.                                    *)
C35_Witness ==
    /\ pc = "restarting"
    /\ last.op = "group-id"
    /\ valueForKeyPath(userConfig, ENTITY_FILE_PATH_KEYPATH) = StrV("/lobby")
    /\ \E i \in 1..Len(trace) : trace[i] = "pack"

UnpackRan == \E i \in 1..Len(trace) : trace[i] = "unpack"

(* The keys of the group set after the loop over the group list of a user  *)
(* document, and after the loop over its group-forbidden list.             *)
GroupKeysUnpacked(config, withForbiddens) ==
    LET cleared == [St EXCEPT !.userConfig = config,
                              !.groupPermissions = EmptyPermissionsMap,
                              !.groupForbiddens = EmptyPermissionsMap]
        listAt(path) == toList(valueForKeyPath(config, path))
        grp == unpackGroupPermissions(listAt(GROUP_PERMISSIONS_KEYPATH),
                                      [s |-> cleared, needPack |-> FALSE])
        frb == unpackGroupForbiddens(listAt(GROUP_FORBIDDENS_KEYPATH),
                                     [s |-> grp.s, needPack |-> FALSE])
    IN  IF withForbiddens THEN DOMAIN frb.s.groupPermissions
        ELSE DOMAIN grp.s.groupPermissions

(* The user document that the unpackPermissions of the last POST read.     *)
DocumentUnpacked ==
    recurseJSONObjectAndOverwriteSettings(
        [St EXCEPT !.userConfig = last.before], last.postedObject).s.userConfig

(* C36: after unpackPermissions every value of the forbidden by-UUID index *)
(* is an entry of the group-forbidden set whose group ID and rank are the  *)
(* key of the index, and the loop over the group-forbidden list adds no    *)
(* entry to the group set.                                                 *)
C36_ForbiddenIndexHoldsForbiddenEntries ==
    (last.op = "post" /\ ~last.restart /\ UnpackRan) =>
        /\ \A k \in DOMAIN groupForbiddensByUUID :
               LET ref == groupForbiddensByUUID[k]
               IN  /\ ref.live
                   /\ ref.map = "forb"
                   /\ ref.key \in DOMAIN groupForbiddens
                   /\ groupForbiddens[ref.key].groupID = k[1]
                   /\ groupForbiddens[ref.key].rank = k[2]
        /\ GroupKeysUnpacked(DocumentUnpacked, TRUE)
               = GroupKeysUnpacked(DocumentUnpacked, FALSE)

(* A POST has been unpacked whose group-forbidden list holds a record with *)
(* its group ID.                                                           *)
C36_Witness ==
    /\ last.op = "post"
    /\ ~last.restart
    /\ UnpackRan
    /\ \E key \in DOMAIN groupForbiddens : isGroup(groupForbiddens[key])
    /\ DOMAIN groupForbiddensByUUID # {}

(* C37: for every group name bound to an ID and every rank, the lookup by  *)
(* the ID returns the capabilities the lookup by the name returns, in the  *)
(* group set and in the group-forbidden set.                               *)
C37_LookupByIDAgreesWithLookupByName ==
    \A groupName \in DOMAIN groupIDs, rank \in 0..MaxRank :
        /\ getPermissionsForGroupID(St, groupIDs[groupName], rank).permissions
               = getPermissionsForGroup(St, groupName, rank).permissions
        /\ getForbiddensForGroupID(St, groupIDs[groupName], rank).permissions
               = getForbiddensForGroup(St, groupName, rank).permissions

(* The reply with the ID of a group has arrived and has bound the name of  *)
(* an entry that holds a capability; the ranks have not arrived.           *)
C37_Witness ==
    /\ last.op = "group-id"
    /\ last.status = "success"
    /\ \E groupName \in DOMAIN groupIDs :
          /\ groupIDs[groupName] \notin DOMAIN groupRanks
          /\ \E rank \in 0..MaxRank :
                getPermissionsForGroup(St, groupName, rank).permissions # {}

IDRequests == {r \in DOMAIN pending : r[1] = "id"}

(* C39: at most one request for the ID of a group name is outstanding at   *)
(* any time.                                                               *)
C39_OneIDRequestPerNameOutstanding ==
    \A r \in IDRequests : pending[r] <= 1

(* C39, the cached names: no step sends a request for the ID of a name     *)
(* whose ID is cached.                                                     *)
C39_CachedNameIsNotRequested ==
    [][\A r \in {x \in DOMAIN pending' : x[1] = "id"} :
          (pc # "start" /\ pc' # "start" /\ toLower(r[2]) \in DOMAIN groupIDs)
              => pending'[r] <= pendingCount(St, r)]_vars

(* C39, the follow-ups: a reply with an ID sends at most the request for   *)
(* the ranks of that ID, and a reply with ranks sends nothing.             *)
C39_CallbacksSendOneFollowUp ==
    [][DirectoryCallback(last') =>
          \A r \in DOMAIN pending' :
              \/ pending'[r] <= pendingCount(St, r)
              \/ /\ last'.op = "group-id"
                 /\ r = << "ranks", RegisteredID(last'.groupName) >>
                 /\ pending'[r] = pendingCount(St, r) + 1]_vars

(* The work the directory sync has left: a request for an ID counts for    *)
(* itself and for the request for the ranks that its reply sends.          *)
RECURSIVE SyncLeft(_, _)
SyncLeft(p, requests) ==
    IF requests = {} THEN 0
    ELSE LET r == CHOOSE x \in requests : TRUE
         IN  (IF r[1] = "id" THEN 2 ELSE 1) * p[r] + SyncLeft(p, requests \ {r})

(* C39, the end of the sync: every reply of the directory leaves less work *)
(* than it found, so that the requests run out when each is answered.      *)
C39_RepliesLeaveLessWork ==
    [][DirectoryCallback(last') =>
          SyncLeft(pending', DOMAIN pending') < SyncLeft(pending, DOMAIN pending)]_vars

(* A POST has been unpacked and the ID of one of its groups is requested   *)
(* and not cached.                                                         *)
C39_Witness ==
    /\ last.op = "post"
    /\ UnpackRan
    /\ \E r \in IDRequests :
          /\ pending[r] > 0
          /\ toLower(r[2]) \notin DOMAIN groupIDs

(* C40: handleAuthenticatedHTTPRequest returns true exactly when it has    *)
(* sent a response, for the POST and for the GET of the settings.          *)
C40_HandledExactlyWhenResponded ==
    (last.op = "post" \/ (last.op = "get" /\ last.isAuthenticated)) =>
        (last.handled <=> last.responded)

(* C40 for the POST alone.                                                 *)
C40_PostIsHandledAndResponded ==
    last.op = "post" => (last.handled /\ last.responded /\ InTrace("respond"))

(* The authenticated GET has sent the settings.                            *)
C40_Witness ==
    /\ last.op = "get"
    /\ last.isAuthenticated
    /\ last.responded
    /\ "values" \in DOMAIN last.response

=============================================================================
